---- MODULE Spec2Model ----
(***************************************************************************)
(* Model of the cross-chain client and of the streaming quote component    *)
(* of 0x-cross-chain-examples:                                             *)
(*   - CrossChainClient.getStatus: one HTTP lookup, JSON decoding and      *)
(*     validation against CrossChainStatusResponseSchema;                  *)
(*   - CrossChainClient.monitorTransaction: the bounded polling loop;      *)
(*   - StreamingQuote.startStreaming: the consumer of the event stream.    *)
(* JSON values are tagged records [t |-> type, v |-> value]; an object's   *)
(* value is a function from its keys to JSON values.                       *)
(***************************************************************************)
EXTENDS Integers, Sequences, FiniteSets, TLC

VARIABLES
    call,   \* one stand-alone getStatus invocation: its response and outcome
    mon,    \* the monitorTransaction runs, one record per run
    twin,   \* whether run 2 is fed the responses run 1 was fed
    sq,     \* the StreamingQuote components: React state, ref and what was recorded
    inv,    \* the startStreaming invocations of each component, with their connections
    script  \* one run of an example script: its configuration, position and effects

vars == <<call, mon, twin, sq, inv, script>>

(***************************************************************************)
(* Bounds of the model.                                                    *)
(***************************************************************************)
MaxBudget == 3         \* largest maxAttempts a caller passes
MaxTransactions == 2   \* longest transactions array of a response body
MaxLines == 2          \* most lines the streaming endpoint sends on one connection

(***************************************************************************)
(* Program constants.                                                      *)
(***************************************************************************)
DefaultMaxAttempts == 60
DefaultIntervalMs == 5000

(***************************************************************************)
(* JSON values.                                                            *)
(***************************************************************************)
Undefined == [t |-> "undefined"]
JNull == [t |-> "null"]
JStr(s) == [t |-> "string", v |-> s]
JNum(n) == [t |-> "number", v |-> n]
JArr(s) == [t |-> "array", v |-> s]
JObj(f) == [t |-> "object", v |-> f]
EmptyObj == [k \in {} |-> Undefined]

\* obj.key of JavaScript: undefined when the key is absent
Field(obj, key) ==
    IF obj.t = "object" /\ key \in DOMAIN obj.v THEN obj.v[key] ELSE Undefined

Has(obj, key) == obj.t = "object" /\ key \in DOMAIN obj.v

\* the object restricted to the keys of ks it has (zod strips unknown keys)
Strip(obj, ks) == JObj([k \in (DOMAIN obj.v) \cap ks |-> obj.v[k]])

(***************************************************************************)
(* schemas.ts: the status schemas.                                         *)
(***************************************************************************)
StatusEnum ==
    { "origin_tx_succeeded", "origin_tx_confirmed", "origin_tx_reverted",
      "bridge_pending", "bridge_delayed", "bridge_filled", "bridge_failed",
      "refund_pending", "refund_succeeded", "refund_failed",
      "destination_tx_pending", "destination_tx_confirmed",
      "destination_tx_reverted", "destination_tx_succeeded",
      "destination_tx_failed", "not_found", "unknown" }

SubStatusEnum ==
    { "insufficient_allowance", "insufficient_balance", "failed_simulation",
      "expired", "internal", "unknown" }

IsString(v) == v.t = "string"
IsNumber(v) == v.t = "number"
IsEnum(v, values) == v.t = "string" /\ v.v \in values

TransactionInfoKeys == {"chainId", "chain", "txHash", "timestamp"}

\* TransactionInfoSchema accepts v
TransactionInfoSchema(v) ==
    /\ v.t = "object"
    /\ IsNumber(Field(v, "chainId"))
    /\ IsString(Field(v, "chain"))
    /\ IsString(Field(v, "txHash"))
    /\ IsNumber(Field(v, "timestamp"))

StatusResponseKeys == {"status", "subStatus", "bridge", "transactions", "zid"}

Issue(path, accepted) == IF accepted THEN {} ELSE {path}

\* SchemaIssues with status: z.string() in place of the z.enum
MutSchemaIssuesAnyStatus(data) ==
    IF data.t # "object" THEN {"<root>"}
    ELSE
        Issue("status", IsString(Field(data, "status")))
        \cup Issue("subStatus",
                \/ ~Has(data, "subStatus")
                \/ IsEnum(Field(data, "subStatus"), SubStatusEnum))
        \cup Issue("bridge",
                ~Has(data, "bridge") \/ IsString(Field(data, "bridge")))
        \cup Issue("transactions",
                /\ Field(data, "transactions").t = "array"
                /\ \A i \in DOMAIN Field(data, "transactions").v :
                       TransactionInfoSchema(Field(data, "transactions").v[i]))
        \cup Issue("zid", IsString(Field(data, "zid")))

\* the paths at which CrossChainStatusResponseSchema rejects data
SchemaIssues(data) ==
    IF data.t # "object" THEN {"<root>"}
    ELSE
        Issue("status", IsEnum(Field(data, "status"), StatusEnum))
        \cup Issue("subStatus",
                \/ ~Has(data, "subStatus")
                \/ IsEnum(Field(data, "subStatus"), SubStatusEnum))
        \cup Issue("bridge",
                ~Has(data, "bridge") \/ IsString(Field(data, "bridge")))
        \cup Issue("transactions",
                /\ Field(data, "transactions").t = "array"
                /\ \A i \in DOMAIN Field(data, "transactions").v :
                       TransactionInfoSchema(Field(data, "transactions").v[i]))
        \cup Issue("zid", IsString(Field(data, "zid")))

\* the value CrossChainStatusResponseSchema.parse returns for accepted data
SchemaOutput(data) ==
    LET top == Strip(data, StatusResponseKeys)
        txs == Field(data, "transactions").v
    IN  JObj([k \in DOMAIN top.v |->
                IF k = "transactions"
                THEN JArr([i \in DOMAIN txs |-> Strip(txs[i], TransactionInfoKeys)])
                ELSE top.v[k]])

(***************************************************************************)
(* Errors.  One record shape for every error a promise rejects with: the   *)
(* template strings of the source are kept as their parts.                 *)
(***************************************************************************)
NoError == [name |-> "none", msg |-> "", n |-> 0, statusText |-> "",
            text |-> "", issues |-> {}]

\* `Failed to fetch status: ${response.status} ${response.statusText}\n${errorText}`
RemoteError(status, statusText, errorText) ==
    [name |-> "Error", msg |-> "Failed to fetch status: ", n |-> status,
     statusText |-> statusText, text |-> errorText, issues |-> {}]

\* `Transaction monitoring timed out after ${maxAttempts} attempts`
TimeoutError(maxAttempts) ==
    [name |-> "Error", msg |-> "Transaction monitoring timed out after ",
     n |-> maxAttempts, statusText |-> "", text |-> " attempts", issues |-> {}]

\* fetch rejects (no response at all)
FetchFailed ==
    [name |-> "TypeError", msg |-> "fetch failed", n |-> 0, statusText |-> "",
     text |-> "", issues |-> {}]

\* response.json() rejects: the body is not JSON
JsonSyntaxError ==
    [name |-> "SyntaxError", msg |-> "Unexpected token", n |-> 0,
     statusText |-> "", text |-> "", issues |-> {}]

\* CrossChainStatusResponseSchema.parse throws
ZodError(issues) ==
    [name |-> "ZodError", msg |-> "invalid", n |-> 0, statusText |-> "",
     text |-> "", issues |-> issues]

\* the onUpdate callback of the caller throws
CallbackError ==
    [name |-> "Error", msg |-> "onUpdate threw", n |-> 0, statusText |-> "",
     text |-> "", issues |-> {}]

(***************************************************************************)
(* HTTP responses.  A body is its text and, when the text is JSON, the     *)
(* value it decodes to (json is <<>> when the text is not JSON).  A        *)
(* response that arrived is taken to arrive in full: reading its body      *)
(* does not fail halfway.                                                  *)
(***************************************************************************)
NetworkError == [kind |-> "network_error"]

Response(status, statusText, text, json) ==
    [kind |-> "http", status |-> status, statusText |-> statusText,
     body |-> [text |-> text, json |-> json]]

\* ResponseOk that takes every status below 400 as a success
MutResponseOkBelow400(resp) == resp.status >= 200 /\ resp.status < 400

\* response.ok of the Fetch API: the status is in the range 200-299
ResponseOk(resp) == resp.status >= 200 /\ resp.status <= 299

(***************************************************************************)
(* CrossChainClient.getStatus.  The outcome records, besides the value     *)
(* returned or the error thrown, which parts of the response were read.    *)
(***************************************************************************)
Returned(value, reads) ==
    [ok |-> TRUE, value |-> value, error |-> NoError, reads |-> reads]

Thrown(error, reads) ==
    [ok |-> FALSE, value |-> Undefined, error |-> error, reads |-> reads]

\* getStatus returning the decoded body without CrossChainStatusResponseSchema.parse
MutGetStatusUnvalidated(resp) ==
    IF resp.kind = "network_error" THEN Thrown(FetchFailed, <<>>)
    ELSE IF ~ResponseOk(resp)
    THEN Thrown(RemoteError(resp.status, resp.statusText, resp.body.text),
                <<"text">>)
    ELSE IF resp.body.json = <<>>
    THEN Thrown(JsonSyntaxError, <<"json">>)
    ELSE Returned(resp.body.json[1], <<"json">>)

getStatus(resp) ==
    IF resp.kind = "network_error" THEN Thrown(FetchFailed, <<>>)
    ELSE IF ~ResponseOk(resp)
    THEN Thrown(RemoteError(resp.status, resp.statusText, resp.body.text),
                <<"text">>)
    ELSE IF resp.body.json = <<>>
    THEN Thrown(JsonSyntaxError, <<"json">>)
    ELSE LET data == resp.body.json[1]
             issues == SchemaIssues(data)
         IN  IF issues = {}
             THEN Returned(SchemaOutput(data), <<"json", "parse">>)
             ELSE Thrown(ZodError(issues), <<"json", "parse">>)

(***************************************************************************)
(* The responses the status endpoint is taken to send.                     *)
(***************************************************************************)
HttpStatuses == {200, 299, 300, 404, 500}

StatusText(status) ==
    CASE status = 200 -> "OK"
      [] status = 404 -> "Not Found"
      [] status = 500 -> "Internal Server Error"
      [] OTHER -> ""

Tx(chainId, hash) ==
    JObj([chainId |-> JNum(chainId), chain |-> JStr("base"),
          txHash |-> JStr(hash), timestamp |-> JNum(1)])

\* transaction entries: two well-formed ones (the second with a key the
\* schema does not know), one without txHash, one with a string chainId
TxEntries ==
    { Tx(8453, "0xa"),
      JObj([chainId |-> JNum(1), chain |-> JStr("solana"), txHash |-> JStr("0xb"),
            timestamp |-> JNum(2), extra |-> JStr("x")]),
      JObj([chainId |-> JNum(8453), chain |-> JStr("base"), timestamp |-> JNum(1)]),
      JObj([chainId |-> JStr("8453"), chain |-> JStr("base"),
            txHash |-> JStr("0xa"), timestamp |-> JNum(1)]) }

TxArrays ==
    UNION {[1..n -> TxEntries] : n \in 0..MaxTransactions}

\* the choices for one key of a body: the key absent, or present with a value
Opt(key, values) == {EmptyObj} \cup {key :> v : v \in values}

\* bodies that range over every status and subStatus value
EnumBodies ==
    { JObj(a @@ b @@ c @@ ("transactions" :> JArr(<<Tx(8453, "0xa")>>))) :
        a \in Opt("status", {JStr(x) : x \in StatusEnum \cup {"bogus"}} \cup {JNum(1)}),
        b \in Opt("subStatus", {JStr(x) : x \in SubStatusEnum \cup {"bogus"}}),
        c \in Opt("zid", {JStr("z1"), JNum(0)}) }

\* bodies that range over the shapes of the other keys
ShapeBodies ==
    { JObj(a @@ b @@ c @@ d @@ e @@ f) :
        a \in Opt("status", {JStr("bridge_pending"), JStr("bridge_filled")}),
        b \in Opt("subStatus", {JStr("expired")}),
        c \in Opt("bridge", {JStr("across"), JNum(7)}),
        d \in Opt("transactions", {JArr(t) : t \in TxArrays} \cup {JStr("none")}),
        e \in Opt("zid", {JStr("z1")}),
        f \in Opt("unknownKey", {JStr("x")}) }

JsonBodies == EnumBodies \cup ShapeBodies \cup {JNull, JArr(<<>>), JStr("ok")}

Responses ==
    {NetworkError}
    \cup { Response(st, StatusText(st), "{json}", <<j>>) :
             st \in HttpStatuses, j \in JsonBodies }
    \cup { Response(st, StatusText(st), txt, <<>>) :
             st \in HttpStatuses, txt \in {"", "Bad Gateway"} }

(***************************************************************************)
(* A stand-alone getStatus invocation.                                     *)
(***************************************************************************)
NoOutcome == [ok |-> FALSE, value |-> Undefined, error |-> NoError, reads |-> <<>>]

NoCall == [pc |-> "idle", resp |-> NetworkError, out |-> NoOutcome]

\* the promise of getStatus settles: it returns a value or throws
GetStatusSettles ==
    /\ call.pc = "pending"
    /\ call' = [call EXCEPT !.pc = "settled", !.out = getStatus(call.resp)]
    /\ UNCHANGED <<mon, twin, sq, inv, script>>

(***************************************************************************)
(* CrossChainClient.monitorTransaction.                                    *)
(* A run is at "getStatus" (awaiting the status request), at "setTimeout"  *)
(* (awaiting the inter-attempt timer), or has "returned" or "thrown".      *)
(* Each action runs the code from one await to the next.                   *)
(***************************************************************************)
Runs == {1, 2}

finalStates ==
    << "destination_tx_succeeded", "destination_tx_failed",
       "destination_tx_reverted", "bridge_failed", "bridge_filled",
       "refund_succeeded", "refund_failed", "origin_tx_reverted" >>

\* Array.prototype.includes on an array of strings
Includes(array, v) == v.t = "string" /\ \E i \in DOMAIN array : array[i] = v.v

\* the callbacks a caller passes as onUpdate, by what they do with a status
OnUpdateKinds == {"returns", "throws", "throwsOnFinal"}

OnUpdateThrows(onUpdate, status) ==
    \/ onUpdate = "throws"
    \/ onUpdate = "throwsOnFinal" /\ Includes(finalStates, Field(status, "status"))

\* the options objects callers pass (maxAttempts is always given here: the
\* default of 60 attempts is out of reach of an exhaustive search)
OptionsSet ==
    { a @@ b @@ c :
        a \in {"maxAttempts" :> n : n \in (0 - 1)..MaxBudget},
        b \in Opt("intervalMs", {0}),
        c \in Opt("onUpdate", OnUpdateKinds) }

\* a destructuring default: const { key = d } = options
Default(options, key, d) == IF key \in DOMAIN options THEN options[key] ELSE d

IdleRun ==
    [pc |-> "idle", maxAttempts |-> 0, intervalMs |-> 0, onUpdate |-> "undefined",
     attempt |-> 0, calls |-> 0, responses |-> <<>>, fetched |-> <<>>,
     updates |-> <<>>, waits |-> <<>>, warned |-> <<>>,
     result |-> Undefined, error |-> NoError]

\* LoopTest with the test attempt <= maxAttempts
MutLoopTestInclusive(m) ==
    IF m.attempt <= m.maxAttempts
    THEN [m EXCEPT !.pc = "getStatus", !.calls = @ + 1]
    ELSE [m EXCEPT !.pc = "thrown", !.error = TimeoutError(m.maxAttempts)]

\* for (...; attempt < maxAttempts; ...): call getStatus, or leave the loop
\* and throw the timeout error
LoopTest(m) ==
    IF m.attempt < m.maxAttempts
    THEN [m EXCEPT !.pc = "getStatus", !.calls = @ + 1]
    ELSE [m EXCEPT !.pc = "thrown", !.error = TimeoutError(m.maxAttempts)]

\* await new Promise((resolve) => setTimeout(resolve, intervalMs))
Sleep(m) == [m EXCEPT !.pc = "setTimeout", !.waits = Append(@, m.intervalMs)]

\* NextAttempt without the attempt++
MutNextAttemptNoIncrement(m) == LoopTest(m)

\* attempt++ and the loop test
NextAttempt(m) == LoopTest([m EXCEPT !.attempt = @ + 1])

\* Catch with the last-attempt test off by one (attempt === maxAttempts)
MutCatchOffByOne(m, error) ==
    LET w == [m EXCEPT !.warned = Append(@, m.attempt + 1)]
    IN  IF m.attempt = m.maxAttempts
        THEN [w EXCEPT !.pc = "thrown", !.error = error]
        ELSE Sleep(w)

\* Catch that retries at once, without the wait
MutCatchNoWait(m, error) ==
    LET w == [m EXCEPT !.warned = Append(@, m.attempt + 1)]
    IN  IF m.attempt = m.maxAttempts - 1
        THEN [w EXCEPT !.pc = "thrown", !.error = error]
        ELSE NextAttempt(w)

\* the catch block
Catch(m, error) ==
    LET w == [m EXCEPT !.warned = Append(@, m.attempt + 1)]
    IN  IF m.attempt = m.maxAttempts - 1
        THEN [w EXCEPT !.pc = "thrown", !.error = error]
        ELSE Sleep(w)

\* TryBody that tests for a final state before it reports the status
MutTryBodyCheckFirst(m, status) ==
    IF Includes(finalStates, Field(status, "status"))
    THEN [m EXCEPT !.pc = "returned", !.result = status]
    ELSE LET u == IF m.onUpdate # "undefined"
                  THEN [m EXCEPT !.updates = Append(@, status)]
                  ELSE m
         IN  IF m.onUpdate # "undefined" /\ OnUpdateThrows(m.onUpdate, status)
             THEN Catch(u, CallbackError)
             ELSE IF u.attempt < u.maxAttempts - 1
             THEN Sleep(u)
             ELSE NextAttempt(u)

\* TryBody that hands on the status with its transactions newest first
MutTryBodyNewestFirst(m, status) ==
    LET txs == Field(status, "transactions").v
        st == [status EXCEPT
                 !.v = [@ EXCEPT !["transactions"] =
                          JArr([i \in DOMAIN txs |-> txs[Len(txs) + 1 - i]])]]
        u == IF m.onUpdate # "undefined"
             THEN [m EXCEPT !.updates = Append(@, st)]
             ELSE m
    IN  IF m.onUpdate # "undefined" /\ OnUpdateThrows(m.onUpdate, st)
        THEN Catch(u, CallbackError)
        ELSE IF Includes(finalStates, Field(st, "status"))
        THEN [u EXCEPT !.pc = "returned", !.result = st]
        ELSE IF u.attempt < u.maxAttempts - 1
        THEN Sleep(u)
        ELSE NextAttempt(u)

\* TryBody that waits after every status that is not final, also after the
\* one of the last attempt
MutTryBodyAlwaysWaits(m, status) ==
    LET u == IF m.onUpdate # "undefined"
             THEN [m EXCEPT !.updates = Append(@, status)]
             ELSE m
    IN  IF m.onUpdate # "undefined" /\ OnUpdateThrows(m.onUpdate, status)
        THEN Catch(u, CallbackError)
        ELSE IF Includes(finalStates, Field(status, "status"))
        THEN [u EXCEPT !.pc = "returned", !.result = status]
        ELSE Sleep(u)

\* the try block after getStatus returned status
TryBody(m, status) ==
    LET u == IF m.onUpdate # "undefined"
             THEN [m EXCEPT !.updates = Append(@, status)]
             ELSE m
    IN  IF m.onUpdate # "undefined" /\ OnUpdateThrows(m.onUpdate, status)
        THEN Catch(u, CallbackError)
        ELSE IF Includes(finalStates, Field(status, "status"))
        THEN [u EXCEPT !.pc = "returned", !.result = status]
        ELSE IF u.attempt < u.maxAttempts - 1
        THEN Sleep(u)
        ELSE NextAttempt(u)

\* one loop iteration from the settling of getStatus on
Iteration(m, resp) ==
    LET out == getStatus(resp)
        f == [m EXCEPT !.responses = Append(@, resp), !.fetched = Append(@, out)]
    IN  IF out.ok THEN TryBody(f, out.value) ELSE Catch(f, out.error)

\* the responses the status endpoint sends to a monitor
OkResponse(status) ==
    Response(200, "OK", "{json}",
             <<JObj([status |-> JStr(status),
                     transactions |-> JArr(<<Tx(8453, "0xa")>>),
                     zid |-> JStr("z1")])>>)

MonitorResponses ==
    {OkResponse(x) : x \in StatusEnum \cup {"bogus"}}
    \cup {NetworkError, Response(500, StatusText(500), "Bad Gateway", <<>>)}

TwinResponses ==
    { OkResponse("bridge_pending"), OkResponse("destination_tx_succeeded"),
      Response(500, StatusText(500), "Bad Gateway", <<>>) }

\* what the k-th getStatus call of run r may be answered with
Feed(r) ==
    LET k == Len(mon[r].responses) + 1
    IN  IF ~twin THEN MonitorResponses
        ELSE IF r = 2 /\ k <= Len(mon[1].responses)
        THEN {mon[1].responses[k]}
        ELSE TwinResponses

\* the run as the call leaves it: options are destructured and the loop is
\* entered
Entered(options) ==
    LoopTest(
        [IdleRun EXCEPT
           !.maxAttempts = Default(options, "maxAttempts", DefaultMaxAttempts),
           !.intervalMs = Default(options, "intervalMs", DefaultIntervalMs),
           !.onUpdate = Default(options, "onUpdate", "undefined")])

\* the call of monitorTransaction
monitorTransaction(r, options) ==
    /\ mon[r].pc = "idle"
    /\ mon' = [mon EXCEPT ![r] = Entered(options)]
    /\ UNCHANGED <<call, twin, sq, inv, script>>

\* the settling of getStatus, were the attempt counter one variable of the
\* client, advanced by every run
MutStatusSettlesSharedAttempt(r, resp) ==
    /\ mon[r].pc = "getStatus"
    /\ mon' = [q \in Runs |->
                 IF q = r THEN Iteration(mon[r], resp)
                 ELSE [mon[q] EXCEPT !.attempt = @ + 1]]
    /\ UNCHANGED <<call, twin, sq, inv, script>>

\* the awaited getStatus settles with the outcome for resp
StatusSettles(r, resp) ==
    /\ mon[r].pc = "getStatus"
    /\ mon' = [mon EXCEPT ![r] = Iteration(mon[r], resp)]
    /\ UNCHANGED <<call, twin, sq, inv, script>>

\* the awaited timer fires
TimerFires(r) ==
    /\ mon[r].pc = "setTimeout"
    /\ mon' = [mon EXCEPT ![r] = NextAttempt(mon[r])]
    /\ UNCHANGED <<call, twin, sq, inv, script>>

Done(r) == mon[r].pc \in {"returned", "thrown"}

(***************************************************************************)
(* The example scripts: baseToSolanaExample, solanaToBaseExample and       *)
(* solanaToBaseWithGasPayerExample.  A run goes from one await to the      *)
(* next; did is the sequence of the requests and signatures it has made.   *)
(***************************************************************************)
Scripts ==
    {"baseToSolanaExample", "solanaToBaseExample", "solanaToBaseWithGasPayerExample"}

\* the options every script passes to monitorTransaction
ScriptMaxAttempts == 120
ScriptIntervalMs == 5000

ScriptOptions ==
    ("maxAttempts" :> ScriptMaxAttempts) @@ ("intervalMs" :> ScriptIntervalMs)
      @@ ("onUpdate" :> "returns")

\* loadConfig: the variables of the environment the scripts read; a variable
\* is absent, empty or set, and the gas payer's key may be the signer's
Environments ==
    [EVM_PRIVATE_KEY : {"undefined", "key"},
     SOLANA_PRIVATE_KEY : {"undefined", "key"},
     SOLANA_GAS_PAYER_PRIVATE_KEY : {"undefined", "key", "otherKey"},
     EVM_RECEIVER_ADDRESS : {"undefined", "", "address"},
     SOLANA_RECEIVER_ADDRESS : {"undefined", "", "address"}]

NoEnvironment ==
    [EVM_PRIVATE_KEY |-> "undefined", SOLANA_PRIVATE_KEY |-> "undefined",
     SOLANA_GAS_PAYER_PRIVATE_KEY |-> "undefined",
     EVM_RECEIVER_ADDRESS |-> "undefined", SOLANA_RECEIVER_ADDRESS |-> "undefined"]

\* the truth value of a string | undefined
Configured(value) == value \notin {"undefined", ""}

\* the answer to getQuote: whether there is liquidity and, of the route, its
\* balance and allowance issues and the chain type of its transaction
Quote(liquidityAvailable, balance, allowance, chainType) ==
    [liquidityAvailable |-> liquidityAvailable, balance |-> balance,
     allowance |-> allowance, chainType |-> chainType]

NoQuote == Quote(FALSE, FALSE, FALSE, "")

Quotes ==
    {NoQuote} \cup
    { Quote(TRUE, balance, allowance, chainType) :
        balance \in BOOLEAN, allowance \in BOOLEAN, chainType \in {"evm", "svm"} }

IdleScript ==
    [name |-> "", pc |-> "idle", env |-> NoEnvironment, userAddress |-> "",
     receiverAddress |-> "", wallet |-> FALSE, route |-> NoQuote, did |-> <<>>,
     confirmation |-> "", exit |-> "", outcome |-> ""]

\* return (or process.exit) at the place named
Stop(s, pc, exit) == [s EXCEPT !.pc = pc, !.exit = exit]

\* an awaited call is made
Await(s, pc, effects) == [s EXCEPT !.pc = pc, !.did = @ \o effects]

\* the private key and the receiver address a script reads
PrivateKey(s) ==
    IF s.name = "baseToSolanaExample" THEN s.env.EVM_PRIVATE_KEY
    ELSE s.env.SOLANA_PRIVATE_KEY

ExplicitReceiver(s) ==
    IF s.name = "baseToSolanaExample" THEN s.env.SOLANA_RECEIVER_ADDRESS
    ELSE s.env.EVM_RECEIVER_ADDRESS

\* the wallet, the sender and the receiver are set up
Wallet(s) ==
    [s EXCEPT
       !.wallet = Configured(PrivateKey(s)),
       !.userAddress = IF Configured(PrivateKey(s)) THEN "own" ELSE "default",
       !.receiverAddress =
           IF Configured(ExplicitReceiver(s)) THEN "explicit" ELSE "default"]

\* Setup with the safety check left out
MutSetupNoSafetyCheck(s) == Await(Wallet(s), "getQuote", <<"getQuote">>)

\* baseToSolanaExample and solanaToBaseExample up to the quote request
Setup(s) ==
    IF Configured(PrivateKey(s)) /\ ~Configured(ExplicitReceiver(s))
    THEN Stop(Wallet(s), "returned", "safety")
    ELSE Await(Wallet(s), "getQuote", <<"getQuote">>)

\* solanaToBaseWithGasPayerExample up to the quote request
SetupWithGasPayer(s) ==
    IF ~Configured(s.env.SOLANA_PRIVATE_KEY) THEN Stop(s, "exited", "noPrivateKey")
    ELSE IF ~Configured(s.env.SOLANA_GAS_PAYER_PRIVATE_KEY)
    THEN Stop(s, "exited", "noGasPayer")
    ELSE IF ~Configured(s.env.EVM_RECEIVER_ADDRESS) THEN Stop(s, "exited", "noReceiver")
    ELSE IF s.env.SOLANA_GAS_PAYER_PRIVATE_KEY = s.env.SOLANA_PRIVATE_KEY
    THEN Stop([s EXCEPT !.wallet = TRUE, !.userAddress = "own"], "exited", "sameKey")
    ELSE Await([s EXCEPT !.wallet = TRUE, !.userAddress = "own",
                         !.receiverAddress = "explicit"],
               "getQuote", <<"getQuote">>)

\* Step 2: the transaction of the route is signed and sent, if the script
\* has a wallet and the transaction is of its chain
Execute(s) ==
    IF s.name = "baseToSolanaExample"
    THEN IF s.route.chainType = "evm" /\ s.wallet
         THEN Await(s, "sendTransaction", <<"sendTransaction">>)
         ELSE Stop(s, "returned", IF s.route.chainType = "evm" THEN "ready" ELSE "end")
    ELSE IF s.name = "solanaToBaseExample"
    THEN IF s.route.chainType = "svm" /\ s.wallet
         THEN Await(s, "sendTransaction", <<"sign", "sendTransaction">>)
         ELSE Stop(s, "returned", IF s.route.chainType = "svm" THEN "ready" ELSE "end")
    ELSE IF s.route.chainType # "svm" THEN Stop(s, "returned", "notSvm")
    ELSE Await(s, "sendTransaction", <<"signGasPayer", "sign", "sendTransaction">>)

\* the quote is looked at
AfterQuote(s, quote) ==
    LET t == [s EXCEPT !.route = quote]
    IN  IF ~quote.liquidityAvailable THEN Stop(s, "returned", "noLiquidity")
        ELSE IF s.name # "baseToSolanaExample" THEN Execute(t)
        ELSE IF quote.balance THEN Stop(t, "returned", "balance")
        ELSE IF quote.allowance /\ s.wallet
        THEN Await(t, "writeContract", <<"approve">>)
        ELSE Execute(t)

\* the catch of the outer try block
CatchScript(s) == Stop(s, "returned", "error")

\* the call of a script
RunScript(name, env) ==
    /\ script.pc = "idle"
    /\ LET s == [IdleScript EXCEPT !.name = name, !.env = env]
       IN  script' = IF name = "solanaToBaseWithGasPayerExample"
                     THEN SetupWithGasPayer(s) ELSE Setup(s)
    /\ UNCHANGED <<call, mon, twin, sq, inv>>

\* the awaited getQuote resolves
QuoteResolves(quote) ==
    /\ script.pc = "getQuote"
    /\ script' = AfterQuote(script, quote)
    /\ UNCHANGED <<call, mon, twin, sq, inv>>

\* the approval is sent, and then confirmed
ApprovalResolves ==
    /\ script.pc \in {"writeContract", "waitForApproval"}
    /\ script' = IF script.pc = "writeContract"
                 THEN Await(script, "waitForApproval", <<"waitForTransactionReceipt">>)
                 ELSE Execute(script)
    /\ UNCHANGED <<call, mon, twin, sq, inv>>

\* the transaction is sent
SendResolves ==
    /\ script.pc = "sendTransaction"
    /\ script' = IF script.name = "baseToSolanaExample"
                 THEN Await(script, "confirm", <<"waitForTransactionReceipt">>)
                 ELSE Await(script, "getLatestBlockhash", <<"getLatestBlockhash">>)
    /\ UNCHANGED <<call, mon, twin, sq, inv>>

BlockhashResolves ==
    /\ script.pc = "getLatestBlockhash"
    /\ script' = Await(script, "confirm", <<"confirmTransaction">>)
    /\ UNCHANGED <<call, mon, twin, sq, inv>>

\* the transaction is confirmed, with an error or without, and Step 3 calls
\* monitorTransaction
\* what the confirmation resolved with: a receipt (waitForTransactionReceipt)
\* or the value of confirmTransaction, whose err is null or not
Confirmed(s, err) ==
    [s EXCEPT !.confirmation = IF s.name = "baseToSolanaExample" THEN "receipt"
                               ELSE IF err THEN "err" ELSE "ok"]

\* ConfirmResolves, were confirmation.value.err not looked at
MutConfirmResolvesIgnoresErr(err) ==
    /\ script.pc = "confirm"
    /\ mon[1].pc = "idle"
    /\ script' = Await(Confirmed(script, err), "monitorTransaction", <<"monitorTransaction">>)
    /\ mon' = [mon EXCEPT ![1] = Entered(ScriptOptions)]
    /\ UNCHANGED <<call, twin, sq, inv>>

ConfirmResolves(err) ==
    /\ script.pc = "confirm"
    /\ mon[1].pc = "idle"
    /\ IF err /\ script.name # "baseToSolanaExample"
       THEN /\ script' = Stop(Confirmed(script, err), "returned", "transactionFailed")
            /\ UNCHANGED mon
       ELSE /\ script' = Await(Confirmed(script, err), "monitorTransaction",
                              <<"monitorTransaction">>)
            /\ mon' = [mon EXCEPT ![1] = Entered(ScriptOptions)]
    /\ UNCHANGED <<call, twin, sq, inv>>

\* an awaited call of the outer try block rejects
ScriptRejects ==
    /\ script.pc \in {"getQuote", "writeContract", "waitForApproval", "sendTransaction",
                      "getLatestBlockhash", "confirm"}
    /\ script' = CatchScript(script)
    /\ UNCHANGED <<call, mon, twin, sq, inv>>

\* MonitorSettles, were a successful refund taken for a completed swap
MutMonitorSettlesAnyDestination ==
    /\ script.pc = "monitorTransaction"
    /\ mon[1].pc \in {"returned", "thrown"}
    /\ script' =
         [Stop(script, "returned", "end") EXCEPT
            !.outcome =
               IF mon[1].pc = "thrown" THEN "monitoringFailed"
               ELSE IF Field(mon[1].result, "status") \in
                         {JStr("destination_tx_succeeded"), JStr("bridge_filled"),
                          JStr("refund_succeeded")}
               THEN "completed"
               ELSE "notCompleted"]
    /\ UNCHANGED <<call, mon, twin, sq, inv>>

\* monitorTransaction has returned the final status or thrown
MonitorSettles ==
    /\ script.pc = "monitorTransaction"
    /\ mon[1].pc \in {"returned", "thrown"}
    /\ script' =
         [Stop(script, "returned", "end") EXCEPT
            !.outcome =
               IF mon[1].pc = "thrown" THEN "monitoringFailed"
               ELSE IF Field(mon[1].result, "status") \in
                         {JStr("destination_tx_succeeded"), JStr("bridge_filled")}
               THEN "completed"
               ELSE "notCompleted"]
    /\ UNCHANGED <<call, mon, twin, sq, inv>>

(***************************************************************************)
(* StreamingQuote.tsx: the text of the event stream.                       *)
(* Text is a sequence of characters, each a one-character string, except   *)
(* that the three characters of a JSON document {...} are "{", a name for  *)
(* what is between the braces, and "}".  Bytes are the characters, except  *)
(* that the two-byte character e9 travels as the bytes "C3" and "A9".     *)
(***************************************************************************)
NL == "\n"
Replacement == "?"     \* U+FFFD, what TextDecoder writes for malformed input

JBool(b) == [t |-> "boolean", v |-> b]

\* TextDecoder.decode(value, { stream: true }): the text of the bytes, given
\* the bytes of an unfinished character kept from the chunk before; state is
\* [text, pend]
RECURSIVE DecodeFrom(_, _, _)
DecodeFrom(text, pend, bytes) ==
    IF bytes = <<>> THEN [text |-> text, pend |-> pend]
    ELSE LET b == Head(bytes)
         IN  IF pend # <<>>
             THEN IF b = "A9"
                  THEN DecodeFrom(Append(text, "e9"), <<>>, Tail(bytes))
                  ELSE DecodeFrom(Append(text, Replacement), <<>>, bytes)
             ELSE IF b = "C3"
                  THEN DecodeFrom(text, <<b>>, Tail(bytes))
                  ELSE IF b = "A9"
                  THEN DecodeFrom(Append(text, Replacement), <<>>, Tail(bytes))
                  ELSE DecodeFrom(Append(text, b), <<>>, Tail(bytes))

Decode(pend, bytes) == DecodeFrom(<<>>, pend, bytes)

\* buffer.split("\n"): the pieces between the newlines, at least one
RECURSIVE SplitFrom(_, _, _)
SplitFrom(pieces, piece, text) ==
    IF text = <<>> THEN Append(pieces, piece)
    ELSE IF Head(text) = NL
    THEN SplitFrom(Append(pieces, piece), <<>>, Tail(text))
    ELSE SplitFrom(pieces, Append(piece, Head(text)), Tail(text))

Split(text) == SplitFrom(<<>>, <<>>, text)

\* lines.pop() and what it leaves
AllButLast(pieces) == SubSeq(pieces, 1, Len(pieces) - 1)
Popped(pieces) == pieces[Len(pieces)]

DataPrefix == <<"d", "a", "t", "a", ":", " ">>

\* line.startsWith("data:"): the prefix without its last character
MutStartsWithColon(line, prefix) ==
    /\ Len(line) >= Len(prefix) - 1
    /\ SubSeq(line, 1, Len(prefix) - 1) = SubSeq(prefix, 1, Len(prefix) - 1)

\* line.startsWith("data: ")
StartsWith(line, prefix) ==
    Len(line) >= Len(prefix) /\ SubSeq(line, 1, Len(prefix)) = prefix

\* line.slice(6)
Slice(line, n) == SubSeq(line, n + 1, Len(line))

WhiteSpace == {" ", "\r", "\t"}

\* String.prototype.trim
RECURSIVE Trim(_)
Trim(text) ==
    IF text = <<>> THEN text
    ELSE IF Head(text) \in WhiteSpace THEN Trim(Tail(text))
    ELSE IF text[Len(text)] \in WhiteSpace THEN Trim(SubSeq(text, 1, Len(text) - 1))
    ELSE text

(***************************************************************************)
(* The JSON documents the endpoint sends, by the name between the braces;  *)
(* zid is the string the document carries as its zid (or in its message).  *)
(***************************************************************************)
RouteFields(n) ==
    [sellAmount |-> JStr("1000"), buyAmount |-> JNum(n), minBuyAmount |-> JNum(n - 1),
     estimatedTimeSeconds |-> JNum(30),
     gasCosts |-> JObj([totalNetworkFee |-> JStr("21000")]),
     seqNum |-> JNum(n)]

StreamEvent(zid, type, data) ==
    JObj([data |-> JObj([zid |-> JStr(zid),
                         event |-> JObj([type |-> JStr(type), data |-> data])])])

DocNames ==
    { "routeFlat", "routeNested", "routeOther", "resultTrue", "resultFalse",
      "fatal", "errorNull", "errorText", "ping", "noEvent" }

Doc(name, zid) ==
    CASE name = "routeFlat" ->
           StreamEvent(zid, "route",
                       JObj(RouteFields(99) @@ [allowanceTarget |-> JStr("0xT")]))
      [] name = "routeNested" ->
           StreamEvent(zid, "route",
                       JObj([route |-> JObj(RouteFields(99)),
                             allowanceTarget |-> JStr("0xT")]))
      [] name = "routeOther" ->
           StreamEvent(zid, "route",
                       JObj(RouteFields(98) @@ [allowanceTarget |-> JNull]))
      [] name = "resultTrue" ->
           StreamEvent(zid, "result", JObj([liquidityAvailable |-> JBool(TRUE)]))
      [] name = "resultFalse" ->
           StreamEvent(zid, "result", JObj([liquidityAvailable |-> JBool(FALSE)]))
      [] name = "fatal" ->
           JObj([error |-> JObj([message |-> JStr(zid), code |-> JStr("E1"),
                                 type |-> JStr("fatal")])])
      [] name = "errorNull" -> JObj([error |-> JNull])
      [] name = "errorText" -> JObj([error |-> JStr(zid)])
      [] name = "ping" -> StreamEvent(zid, "ping", JNull)
      [] name = "noEvent" -> JObj([data |-> JObj([zid |-> JStr(zid)])])

\* JSON.parse: [ok, value]; a document may carry "e9" (or what a decoder made
\* of its bytes) inside its zid string
JsonParse(text) ==
    LET t == Trim(text)
        n == Len(t)
    IN  IF n >= 3 /\ t[1] = "{" /\ t[n] = "}" /\ t[2] \in DocNames
        THEN CASE n = 3 -> [ok |-> TRUE, value |-> Doc(t[2], "z1")]
               [] n = 4 /\ t[3] = "e9" -> [ok |-> TRUE, value |-> Doc(t[2], "z-e9")]
               [] n = 4 /\ t[3] = Replacement ->
                     [ok |-> TRUE, value |-> Doc(t[2], "z?")]
               [] n = 5 /\ t[3] = Replacement /\ t[4] = Replacement ->
                     [ok |-> TRUE, value |-> Doc(t[2], "z??")]
               [] OTHER -> [ok |-> FALSE, value |-> Undefined]
        ELSE IF t = <<"7">> THEN [ok |-> TRUE, value |-> JNum(7)]
        ELSE [ok |-> FALSE, value |-> Undefined]

(***************************************************************************)
(* StreamingQuote: the component and startStreaming.                       *)
(* sq[c] is the React state of component c, its abortControllerRef (the    *)
(* number of the invocation whose controller it holds, 0 for null) and     *)
(* events, the record of what the component was made to show.  inv[c][i]   *)
(* holds the locals of the i-th startStreaming call of c and its           *)
(* connection: wire is what the endpoint has still to send, plan the       *)
(* sizes of the chunks it sends and chunks how many of them it has sent    *)
(* (without a plan the chunks have any sizes and the endpoint may close    *)
(* at any point), received what was read.                                  *)
(***************************************************************************)
Components == {1, 2}

ErrorText(prefix, arg) == [t |-> "string", v |-> <<prefix, arg>>]

IdleComponent ==
    [routes |-> <<>>, isStreaming |-> FALSE, isComplete |-> FALSE,
     error |-> JNull, liquidityAvailable |-> JNull,
     abortControllerRef |-> 0, mounted |-> TRUE, events |-> <<>>]

\* the response of the streaming endpoint: its status, whether it has a
\* readable body, and the text of the body of an error response
StreamResponse(status, body, text) == [status |-> status, body |-> body, text |-> text]

NoResponse == StreamResponse(0, FALSE, "")

OkStream == StreamResponse(200, TRUE, "")

StreamResponses ==
    { OkStream, StreamResponse(200, FALSE, "") }
    \cup { StreamResponse(status, TRUE, text) :
             status \in {300, 404}, text \in {"", "Bad Gateway"} }

NewInvocation(stream, plan) ==
    [pc |-> "fetch", exit |-> "", response |-> NoResponse,
     buffer |-> <<>>, pend |-> <<>>,
     wire |-> stream, plan |-> plan, chunks |-> 0, received |-> <<>>,
     aborted |-> FALSE, cancelled |-> FALSE]

Event(kind, data) == [kind |-> kind, data |-> data]

Nullish(v) == v.t \in {"undefined", "null"}

\* the truthiness of a value
Truthy(v) ==
    CASE v.t \in {"undefined", "null"} -> FALSE
      [] v.t = "boolean" -> v.v
      [] v.t = "number" -> v.v # 0
      [] v.t = "string" -> v.v # ""
      [] OTHER -> TRUE

IsStr(v, string) == v.t = "string" /\ v.v = string

\* { ...v }: the own keys of an object
Spread(v) == IF v.t = "object" THEN v.v ELSE EmptyObj

\* the route record, were the nested form not flattened
MutNormalizeRouteFlatOnly(routeData, zid) ==
    JObj(("id" :> zid) @@ Spread(routeData))

\* the route record built from the data of a route event (keys written
\* later in an object literal win: they stand to the left of @@)
NormalizeRoute(routeData, zid) ==
    IF Truthy(Field(routeData, "route"))
    THEN JObj(("id" :> zid)
              @@ ("allowanceTarget" :> Field(routeData, "allowanceTarget"))
              @@ Spread(Field(routeData, "route")))
    ELSE JObj(("id" :> zid) @@ Spread(routeData))

Caught == [kind |-> "caught", value |-> Undefined]

\* the try block for the text of one data line: what it does before it
\* throws, returns or falls through
TryLine(eventData) ==
    LET parsed == JsonParse(eventData)
        data == parsed.value
    IN  IF ~parsed.ok THEN Caught
        ELSE IF data.t \notin {"object", "array"} THEN Caught
        ELSE IF Has(data, "error")
        THEN IF Nullish(Field(data, "error")) THEN Caught
             ELSE [kind |-> "fatal",
                   value |-> Field(Field(data, "error"), "message")]
        ELSE IF Nullish(Field(data, "data")) THEN Caught
        ELSE IF Nullish(Field(Field(data, "data"), "event")) THEN Caught
        ELSE LET zid == Field(Field(data, "data"), "zid")
                 event == Field(Field(data, "data"), "event")
             IN  IF IsStr(Field(event, "type"), "route")
                 THEN IF Nullish(Field(event, "data")) THEN Caught
                      ELSE [kind |-> "route",
                            value |-> NormalizeRoute(Field(event, "data"), zid)]
                 ELSE IF IsStr(Field(event, "type"), "result")
                 THEN IF Nullish(Field(event, "data")) THEN Caught
                      ELSE [kind |-> "result",
                            value |-> Field(Field(event, "data"), "liquidityAvailable")]
                 ELSE [kind |-> "none", value |-> Undefined]

\* setRoutes((prevRoutes) => [{ ...route, displayIndex }, ...prevRoutes])
MutSetRoutesPrepend(ui, route) ==
    LET newRoute == JObj(("displayIndex" :> JNum(Len(ui.routes) + 1)) @@ route.v)
    IN  [ui EXCEPT !.routes = <<newRoute>> \o @,
                   !.events = Append(@, Event("route", newRoute))]

\* setRoutes((prevRoutes) => [...prevRoutes, { ...route, displayIndex }])
SetRoutes(ui, route) ==
    LET newRoute == JObj(("displayIndex" :> JNum(Len(ui.routes) + 1)) @@ route.v)
    IN  [ui EXCEPT !.routes = Append(@, newRoute),
                   !.events = Append(@, Event("route", newRoute))]

\* the inner catch block, were it to end the call as the outer one does
MutCatchLineReturns(s) ==
    [s EXCEPT !.ui.error = ErrorText("Error parsing server response", Undefined),
              !.ui.isStreaming = FALSE,
              !.ui.isComplete = TRUE,
              !.ui.events = Append(@, Event("parseError", Undefined)),
              !.iv.pc = "returned",
              !.iv.exit = "error"]

\* the inner catch block: the error is logged and shown, the loop goes on
CatchLine(s) ==
    [s EXCEPT !.ui.error = ErrorText("Error parsing server response", Undefined),
              !.ui.events = Append(@, Event("parseError", Undefined))]

\* ProcessLine, were the result handled without setIsStreaming(false)
MutProcessLineResultKeepsStreaming(s, line) ==
    IF ~StartsWith(line, DataPrefix) THEN s
    ELSE LET eventData == Slice(line, 6)
             o == TryLine(eventData)
         IN  IF Trim(eventData) = <<>> THEN s
             ELSE CASE o.kind = "caught" -> CatchLine(s)
                    [] o.kind = "fatal" ->
                       [s EXCEPT
                          !.ui.error = ErrorText("Fatal error: ", o.value),
                          !.ui.isStreaming = FALSE,
                          !.ui.isComplete = TRUE,
                          !.ui.events = Append(@, Event("fatal", o.value)),
                          !.iv.pc = "returned",
                          !.iv.exit = "fatal"]
                    [] o.kind = "route" ->
                       [s EXCEPT !.ui = SetRoutes(@, o.value)]
                    [] o.kind = "result" ->
                       [s EXCEPT
                          !.ui.liquidityAvailable = o.value,
                          !.ui.isComplete = TRUE,
                          !.ui.events = Append(@, Event("result", o.value)),
                          !.iv.pc = "returned",
                          !.iv.exit = "result"]
                    [] OTHER -> s

\* the body of the for loop for one line; s is [ui, iv]: the component
\* and the invocation
ProcessLine(s, line) ==
    IF ~StartsWith(line, DataPrefix) THEN s
    ELSE LET eventData == Slice(line, 6)
             o == TryLine(eventData)
         IN  IF Trim(eventData) = <<>> THEN s
             ELSE CASE o.kind = "caught" -> CatchLine(s)
                    [] o.kind = "fatal" ->
                       [s EXCEPT
                          !.ui.error = ErrorText("Fatal error: ", o.value),
                          !.ui.isStreaming = FALSE,
                          !.ui.isComplete = TRUE,
                          !.ui.events = Append(@, Event("fatal", o.value)),
                          !.iv.pc = "returned",
                          !.iv.exit = "fatal"]
                    [] o.kind = "route" ->
                       [s EXCEPT !.ui = SetRoutes(@, o.value)]
                    [] o.kind = "result" ->
                       [s EXCEPT
                          !.ui.liquidityAvailable = o.value,
                          !.ui.isStreaming = FALSE,
                          !.ui.isComplete = TRUE,
                          !.ui.events = Append(@, Event("result", o.value)),
                          !.iv.pc = "returned",
                          !.iv.exit = "result"]
                    [] OTHER -> s

\* the loop, were it not left by the return of a terminal event
RECURSIVE MutProcessLinesNoReturn(_, _)
MutProcessLinesNoReturn(s, lines) ==
    IF lines = <<>> THEN s
    ELSE MutProcessLinesNoReturn(ProcessLine(s, Head(lines)), Tail(lines))

\* for (const line of lines), left by the return of a terminal event
RECURSIVE ProcessLines(_, _)
ProcessLines(s, lines) ==
    IF lines = <<>> \/ s.iv.pc = "returned" THEN s
    ELSE ProcessLines(ProcessLine(s, Head(lines)), Tail(lines))

\* the turn of the loop with decoder.decode(value): each chunk decoded on
\* its own, an unfinished character at its end replaced
MutProcessChunkNoStream(s, chunk) ==
    LET decoded == Decode(<<>>, chunk)
        text == IF decoded.pend = <<>> THEN decoded.text
                ELSE Append(decoded.text, Replacement)
        lines == Split(s.iv.buffer \o text)
        kept == [s EXCEPT !.iv.buffer = Popped(lines)]
    IN  ProcessLines(kept, AllButLast(lines))

\* the turn of the loop without lines.pop(): the last piece processed too
MutProcessChunkLastPiece(s, chunk) ==
    LET decoded == Decode(s.iv.pend, chunk)
        lines == Split(s.iv.buffer \o decoded.text)
        kept == [s EXCEPT !.iv.pend = decoded.pend,
                          !.iv.buffer = Popped(lines)]
    IN  ProcessLines(kept, lines)

\* one turn of the while loop for a chunk read: decode, split, keep the
\* last piece, process the others
ProcessChunk(s, chunk) ==
    LET decoded == Decode(s.iv.pend, chunk)
        lines == Split(s.iv.buffer \o decoded.text)
        kept == [s EXCEPT !.iv.pend = decoded.pend,
                          !.iv.buffer = Popped(lines)]
    IN  ProcessLines(kept, AllButLast(lines))

\* the outer catch block, for an error that is no AbortError
CatchConnection(ui, message) ==
    [ui EXCEPT !.error = ErrorText("Connection error: ", JStr(message)),
               !.isStreaming = FALSE,
               !.isComplete = TRUE,
               !.events = Append(@, Event("connectionError", JStr(message)))]

Current(c) == Len(inv[c])

\* the call, were it not to abort the controller the ref holds
MutStartStreamingNoAbort(c, stream, plan) ==
    /\ sq[c].mounted
    /\ inv' = [inv EXCEPT ![c] = Append(@, NewInvocation(stream, plan))]
    /\ sq' = [sq EXCEPT ![c] =
                [@ EXCEPT !.routes = <<>>, !.error = JNull, !.isComplete = FALSE,
                          !.liquidityAvailable = JNull, !.isStreaming = TRUE,
                          !.events = <<>>,
                          !.abortControllerRef = Len(inv[c]) + 1]]
    /\ UNCHANGED <<call, mon, twin, script>>

\* startStreaming, were setRoutes([]) left out of the reset
MutStartStreamingKeepsRoutes(c, stream, plan) ==
    LET ref == sq[c].abortControllerRef
        aborted == IF ref # 0 THEN [inv[c] EXCEPT ![ref].aborted = TRUE] ELSE inv[c]
    IN  /\ sq[c].mounted
        /\ inv' = [inv EXCEPT ![c] = Append(aborted, NewInvocation(stream, plan))]
        /\ sq' = [sq EXCEPT ![c] =
                    [@ EXCEPT !.error = JNull, !.isComplete = FALSE,
                              !.liquidityAvailable = JNull, !.isStreaming = TRUE,
                              !.events = <<>>,
                              !.abortControllerRef = Len(inv[c]) + 1]]
        /\ UNCHANGED <<call, mon, twin, script>>

\* the call up to its first await: abort the controller the ref holds,
\* reset the state, make a controller and the request
startStreaming(c, stream, plan) ==
    LET ref == sq[c].abortControllerRef
        aborted == IF ref # 0 THEN [inv[c] EXCEPT ![ref].aborted = TRUE] ELSE inv[c]
    IN  /\ sq[c].mounted
        /\ inv' = [inv EXCEPT ![c] = Append(aborted, NewInvocation(stream, plan))]
        /\ sq' = [sq EXCEPT ![c] =
                    [@ EXCEPT !.routes = <<>>, !.error = JNull, !.isComplete = FALSE,
                              !.liquidityAvailable = JNull, !.isStreaming = TRUE,
                              !.events = <<>>,
                              !.abortControllerRef = Len(inv[c]) + 1]]
        /\ UNCHANGED <<call, mon, twin, script>>

\* the awaited fetch resolves with a response: not ok (its text is awaited
\* next), without a body, or with a body to read
FetchResolves(c, i, resp) ==
    /\ i \in DOMAIN inv[c]
    /\ inv[c][i].pc = "fetch"
    /\ ~inv[c][i].aborted
    /\ IF ~ResponseOk(resp)
       THEN /\ inv' = [inv EXCEPT ![c][i].pc = "text", ![c][i].response = resp]
            /\ UNCHANGED sq
       ELSE IF ~resp.body
       THEN /\ sq' = [sq EXCEPT ![c] =
                        [@ EXCEPT !.error = ErrorText("No response body available",
                                                      Undefined),
                                  !.isStreaming = FALSE,
                                  !.isComplete = TRUE,
                                  !.events = Append(@, Event("noBody", Undefined))]]
            /\ inv' = [inv EXCEPT ![c][i].pc = "returned", ![c][i].exit = "noBody",
                                  ![c][i].response = resp]
       ELSE /\ inv' = [inv EXCEPT ![c][i].pc = "read", ![c][i].response = resp]
            /\ UNCHANGED sq
    /\ UNCHANGED <<call, mon, twin, script>>

\* the error of a response that is not ok, were it to leave out the status
MutTextResolvesNoStatus(c, i) ==
    /\ i \in DOMAIN inv[c]
    /\ inv[c][i].pc = "text"
    /\ ~inv[c][i].aborted
    /\ sq' = [sq EXCEPT ![c] =
                [@ EXCEPT !.error = ErrorText("API error: ",
                                              JArr(<<JStr(inv[c][i].response.text)>>)),
                          !.isStreaming = FALSE,
                          !.isComplete = TRUE,
                          !.events = Append(@, Event("apiError",
                                                     JNum(inv[c][i].response.status)))]]
    /\ inv' = [inv EXCEPT ![c][i].pc = "returned", ![c][i].exit = "notOk"]
    /\ UNCHANGED <<call, mon, twin, script>>

\* the awaited response.text() of a response that is not ok resolves
TextResolves(c, i) ==
    /\ i \in DOMAIN inv[c]
    /\ inv[c][i].pc = "text"
    /\ ~inv[c][i].aborted
    /\ sq' = [sq EXCEPT ![c] =
                [@ EXCEPT !.error = ErrorText("API error: ",
                                              JArr(<<JNum(inv[c][i].response.status),
                                                     JStr(inv[c][i].response.text)>>)),
                          !.isStreaming = FALSE,
                          !.isComplete = TRUE,
                          !.events = Append(@, Event("apiError",
                                                     JNum(inv[c][i].response.status)))]]
    /\ inv' = [inv EXCEPT ![c][i].pc = "returned", ![c][i].exit = "notOk"]
    /\ UNCHANGED <<call, mon, twin, script>>

\* the awaited fetch, response.text() or read rejects with a transport error
TransportFails(c, i) ==
    /\ i \in DOMAIN inv[c]
    /\ inv[c][i].pc \in {"fetch", "text", "read"}
    /\ ~inv[c][i].aborted
    /\ sq' = [sq EXCEPT ![c] = CatchConnection(@, "network error")]
    /\ inv' = [inv EXCEPT ![c][i].pc = "returned", ![c][i].exit = "error"]
    /\ UNCHANGED <<call, mon, twin, script>>

\* the rejection of an aborted request, were it handled as any other error
MutAbortRejectsAsError(c, i) ==
    /\ i \in DOMAIN inv[c]
    /\ inv[c][i].pc \in {"fetch", "text", "read"}
    /\ inv[c][i].aborted
    /\ sq' = [sq EXCEPT ![c] = CatchConnection(@, "The operation was aborted")]
    /\ inv' = [inv EXCEPT ![c][i].pc = "returned", ![c][i].exit = "aborted"]
    /\ UNCHANGED <<call, mon, twin, script>>

\* the awaited fetch, response.text() or read of an aborted request rejects
\* with an AbortError: the outer catch returns
AbortRejects(c, i) ==
    /\ i \in DOMAIN inv[c]
    /\ inv[c][i].pc \in {"fetch", "text", "read"}
    /\ inv[c][i].aborted
    /\ inv' = [inv EXCEPT ![c][i].pc = "returned", ![c][i].exit = "aborted"]
    /\ UNCHANGED <<call, mon, twin, sq, script>>

\* abortControllerRef.current.abort(), when the ref holds a controller
Abort(c) ==
    IF sq[c].abortControllerRef # 0
    THEN [inv[c] EXCEPT ![sq[c].abortControllerRef].aborted = TRUE]
    ELSE inv[c]

\* stopStreaming
stopStreaming(c) ==
    /\ sq[c].mounted
    /\ inv' = [inv EXCEPT ![c] = Abort(c)]
    /\ sq' = [sq EXCEPT ![c] = [@ EXCEPT !.abortControllerRef = 0,
                                         !.isStreaming = FALSE]]
    /\ UNCHANGED <<call, mon, twin, script>>

\* the cleanup of the effect, run when the component is unmounted
Unmount(c) ==
    /\ sq[c].mounted
    /\ inv' = [inv EXCEPT ![c] = Abort(c)]
    /\ sq' = [sq EXCEPT ![c].mounted = FALSE]
    /\ UNCHANGED <<call, mon, twin, script>>

\* the sizes the next chunk of the connection may have
ChunkSizes(c, i) ==
    IF i \notin DOMAIN inv[c] THEN {}
    ELSE IF inv[c][i].plan = <<>> THEN 1..Len(inv[c][i].wire)
    ELSE IF inv[c][i].chunks < Len(inv[c][i].plan)
    THEN {inv[c][i].plan[inv[c][i].chunks + 1]}
    ELSE {}

\* ReadResolves, were the request made without the signal of the
\* controller: a read of an aborted call still resolves with its chunk
MutReadResolvesWithoutSignal(c, i, n) ==
    /\ i \in DOMAIN inv[c]
    /\ inv[c][i].pc = "read"
    /\ n \in ChunkSizes(c, i)
    /\ LET iv == inv[c][i]
           chunk == SubSeq(iv.wire, 1, n)
           sent == [iv EXCEPT !.wire = SubSeq(@, n + 1, Len(@)),
                              !.chunks = IF iv.plan = <<>> THEN @ ELSE @ + 1,
                              !.received = @ \o chunk]
           s == ProcessChunk([ui |-> sq[c], iv |-> sent], chunk)
       IN  /\ sq' = [sq EXCEPT ![c] = s.ui]
           /\ inv' = [inv EXCEPT ![c][i] = s.iv]
    /\ UNCHANGED <<call, mon, twin, script>>

\* ReadResolves, were the carry-over buffer and the decoder one for all
\* components instead of one for each call
MutReadResolvesSharedBuffer(c, i, n) ==
    /\ i \in DOMAIN inv[c]
    /\ inv[c][i].pc = "read"
    /\ ~inv[c][i].aborted
    /\ n \in ChunkSizes(c, i)
    /\ LET other == CHOOSE d \in Components : d # c
           iv == IF inv[other] = <<>> THEN inv[c][i]
                 ELSE [inv[c][i] EXCEPT !.buffer = inv[other][1].buffer,
                                        !.pend = inv[other][1].pend]
           chunk == SubSeq(iv.wire, 1, n)
           sent == [iv EXCEPT !.wire = SubSeq(@, n + 1, Len(@)),
                              !.chunks = IF iv.plan = <<>> THEN @ ELSE @ + 1,
                              !.received = @ \o chunk]
           s == ProcessChunk([ui |-> sq[c], iv |-> sent], chunk)
       IN  /\ sq' = [sq EXCEPT ![c] = s.ui]
           /\ inv' = [inv EXCEPT ![c][i] = s.iv]
    /\ UNCHANGED <<call, mon, twin, script>>

\* the awaited reader.read() resolves with a chunk of n bytes
ReadResolves(c, i, n) ==
    /\ i \in DOMAIN inv[c]
    /\ inv[c][i].pc = "read"
    /\ ~inv[c][i].aborted
    /\ n \in ChunkSizes(c, i)
    /\ LET iv == inv[c][i]
           chunk == SubSeq(iv.wire, 1, n)
           sent == [iv EXCEPT !.wire = SubSeq(@, n + 1, Len(@)),
                              !.chunks = IF iv.plan = <<>> THEN @ ELSE @ + 1,
                              !.received = @ \o chunk]
           s == ProcessChunk([ui |-> sq[c], iv |-> sent], chunk)
       IN  /\ sq' = [sq EXCEPT ![c] = s.ui]
           /\ inv' = [inv EXCEPT ![c][i] = s.iv]
    /\ UNCHANGED <<call, mon, twin, script>>

\* the end of the stream, were it handled as the outer catch handles an error
MutReadDoneIsError(c, i) ==
    /\ i \in DOMAIN inv[c]
    /\ inv[c][i].pc = "read"
    /\ ~inv[c][i].aborted
    /\ inv[c][i].chunks = Len(inv[c][i].plan)
    /\ sq' = [sq EXCEPT ![c] = CatchConnection(@, "stream ended")]
    /\ inv' = [inv EXCEPT ![c][i].pc = "returned", ![c][i].exit = "done"]
    /\ UNCHANGED <<call, mon, twin, script>>

\* the awaited reader.read() resolves with done: the endpoint has closed the
\* connection (after the planned chunks, or at any point without a plan)
ReadDone(c, i) ==
    /\ i \in DOMAIN inv[c]
    /\ inv[c][i].pc = "read"
    /\ ~inv[c][i].aborted
    /\ inv[c][i].chunks = Len(inv[c][i].plan)
    /\ inv' = [inv EXCEPT ![c][i].pc = "returned", ![c][i].exit = "done"]
    /\ UNCHANGED <<call, mon, twin, sq, script>>

(***************************************************************************)
(* What the endpoint sends: lines by kind, each closed by a newline.       *)
(***************************************************************************)
DataLine(body) == DataPrefix \o body

Line(kind) ==
    CASE kind = "noSpace" -> <<"d", "a", "t", "a", ":", "{", "routeFlat", "}">>
      [] kind = "empty" -> DataPrefix
      [] kind = "space" -> DataLine(<<" ">>)
      [] kind = "malformed" -> DataLine(<<"{", "routeFlat">>)
      [] kind = "routeOther" -> DataLine(<<"{", "routeOther", "C3", "A9", "}">>)
      [] OTHER -> DataLine(<<"{", kind, "}">>)

LineKinds ==
    { "noSpace", "empty", "space", "malformed", "routeFlat", "routeNested",
      "routeOther", "resultFalse", "fatal", "errorNull" }

ValidLineKinds ==
    { "noSpace", "empty", "space", "routeFlat", "routeNested", "routeOther",
      "resultFalse", "fatal" }

\* the sizes of the chunks of a stream sent line by line
RECURSIVE LineByLine(_)
LineByLine(kinds) ==
    IF kinds = <<>> THEN <<>>
    ELSE <<Len(Line(Head(kinds))) + 1>> \o LineByLine(Tail(kinds))

RECURSIVE Wire(_)
Wire(kinds) ==
    IF kinds = <<>> THEN <<>>
    ELSE Line(Head(kinds)) \o <<NL>> \o Wire(Tail(kinds))

Streams(kinds) ==
    { Wire(ks) : ks \in UNION { [1..n -> kinds] : n \in 0..MaxLines } }

Sent(iv) == iv.received \o iv.wire

(***************************************************************************)
(* Specifications.                                                         *)
(***************************************************************************)
\* one monitorTransaction run
Idle ==
    /\ sq = [c \in Components |-> IdleComponent]
    /\ inv = [c \in Components |-> <<>>]
    /\ script = IdleScript

Init ==
    /\ call = NoCall
    /\ mon = [r \in Runs |-> IdleRun]
    /\ twin = FALSE
    /\ Idle

Next ==
    \/ \E options \in OptionsSet : monitorTransaction(1, options)
    \/ \E resp \in Feed(1) : StatusSettles(1, resp)
    \/ TimerFires(1)

Spec == Init /\ [][Next]_vars

\* one getStatus call on any response
InitStatus ==
    /\ call \in {[NoCall EXCEPT !.pc = "pending", !.resp = resp] : resp \in Responses}
    /\ mon = [r \in Runs |-> IdleRun]
    /\ twin = FALSE
    /\ Idle

NextStatus == GetStatusSettles

SpecStatus == InitStatus /\ [][NextStatus]_vars

\* a second run on the responses of the first: the same request and the same
\* maxAttempts and intervalMs, with any onUpdate
monitorTwin(options) ==
    /\ Done(1)
    /\ Default(options, "maxAttempts", DefaultMaxAttempts) = mon[1].maxAttempts
    /\ Default(options, "intervalMs", DefaultIntervalMs) = mon[1].intervalMs
    /\ monitorTransaction(2, options)

InitTwin ==
    /\ call = NoCall
    /\ mon = [r \in Runs |-> IdleRun]
    /\ twin = TRUE
    /\ Idle

NextTwin ==
    \/ \E options \in OptionsSet : monitorTransaction(1, options)
    \/ \E options \in OptionsSet : monitorTwin(options)
    \/ \E r \in Runs : \E resp \in Feed(r) : StatusSettles(r, resp)
    \/ \E r \in Runs : TimerFires(r)

SpecTwin == InitTwin /\ [][NextTwin]_vars

\* one startStreaming call of one component, on any stream in any chunks,
\* closed by the endpoint at any point
Start(c, kinds, planned) ==
    /\ inv[c] = <<>>
    /\ \E stream \in Streams(kinds) :
         IF planned
         THEN stream # <<>> /\ startStreaming(c, stream, <<Len(stream)>>)
         ELSE startStreaming(c, stream, <<>>)

NextStream ==
    \/ Start(1, LineKinds, FALSE)
    \/ \E resp \in StreamResponses : FetchResolves(1, 1, resp)
    \/ TextResolves(1, 1)
    \/ TransportFails(1, 1)
    \/ \E n \in ChunkSizes(1, 1) : ReadResolves(1, 1, n)
    \/ ReadDone(1, 1)

SpecStream == Init /\ [][NextStream]_vars

\* component 1 reads a stream as one chunk, then component 2 reads the same
\* stream as two chunks, split at any byte
StartSplit ==
    /\ inv[1] # <<>>
    /\ inv[1][1].pc = "returned"
    /\ inv[2] = <<>>
    /\ LET stream == Sent(inv[1][1])
       IN  \E n \in 1..(Len(stream) - 1) :
             startStreaming(2, stream, <<n, Len(stream) - n>>)

NextSplit ==
    \/ Start(1, ValidLineKinds, TRUE)
    \/ StartSplit
    \/ \E c \in Components : FetchResolves(c, 1, OkStream)
    \/ \E c \in Components :
         \E n \in ChunkSizes(c, 1) : ReadResolves(c, 1, n)
    \/ \E c \in Components : ReadDone(c, 1)

SpecSplit == Init /\ [][NextSplit]_vars

\* two freshly mounted components consume the same stream in the same two
\* chunks, the second started at any time after the first
RerunKinds == {"malformed", "routeFlat", "routeNested", "resultFalse"}

StartRerun ==
    /\ inv[1] = <<>>
    /\ \E stream \in Streams(RerunKinds) :
         \E n \in 1..(Len(stream) - 1) :
            startStreaming(1, stream, <<n, Len(stream) - n>>)

StartAgain ==
    /\ inv[1] # <<>>
    /\ inv[2] = <<>>
    /\ startStreaming(2, Sent(inv[1][1]), inv[1][1].plan)

NextRerun ==
    \/ StartRerun
    \/ StartAgain
    \/ \E c \in Components : FetchResolves(c, 1, OkStream)
    \/ \E c \in Components :
         \E n \in ChunkSizes(c, 1) : ReadResolves(c, 1, n)
    \/ \E c \in Components : ReadDone(c, 1)

SpecRerun == Init /\ [][NextRerun]_vars

\* a component started, stopped, started again and unmounted at any moments
\* of its streams, which arrive line by line
Calls == {1, 2}

CancelKinds == {"routeFlat", "resultFalse"}

Restart(c) ==
    /\ Len(inv[c]) < Cardinality(Calls)
    /\ \E kinds \in UNION { [1..n -> CancelKinds] : n \in 0..MaxLines } :
         startStreaming(c, Wire(kinds), LineByLine(kinds))

NextCancel ==
    \/ Restart(1)
    \/ stopStreaming(1)
    \/ Unmount(1)
    \/ \E i \in Calls :
         \E resp \in {OkStream, StreamResponse(404, TRUE, "")} : FetchResolves(1, i, resp)
    \/ \E i \in Calls : TextResolves(1, i)
    \/ \E i \in Calls : TransportFails(1, i)
    \/ \E i \in Calls : \E n \in ChunkSizes(1, i) : ReadResolves(1, i, n)
    \/ \E i \in Calls : ReadDone(1, i)
    \/ \E i \in Calls : AbortRejects(1, i)

SpecCancel == Init /\ [][NextCancel]_vars

\* a pending status, two final ones, and an error of the endpoint
PollResponses ==
    { OkResponse("bridge_pending"), OkResponse("destination_tx_succeeded"),
      OkResponse("destination_tx_failed"),
      Response(500, StatusText(500), "Bad Gateway", <<>>) }

\* one monitorTransaction run whose getStatus calls all settle and whose
\* timers all fire: fetch settles or fails, and setTimeout fires
NextLive ==
    \/ \E options \in OptionsSet : monitorTransaction(1, options)
    \/ \E resp \in PollResponses : StatusSettles(1, resp)
    \/ TimerFires(1)

SpecLive ==
    /\ Init
    /\ [][NextLive]_vars
    /\ WF_vars(\E resp \in PollResponses : StatusSettles(1, resp))
    /\ WF_vars(TimerFires(1))

\* one monitorTransaction run on a transfer whose status the endpoint
\* reports with any legs in any order
Legs == {tx \in TxEntries : SchemaIssues(JObj([status |-> JStr("unknown"),
                                              transactions |-> JArr(<<tx>>),
                                              zid |-> JStr("z1")])) = {}}

LegArrays ==
    { txs \in UNION {[1..n -> Legs] : n \in 0..MaxTransactions} :
        \A i, j \in DOMAIN txs : txs[i] = txs[j] => i = j }

LegResponse(status, txs) ==
    Response(200, "OK", "{json}",
             <<JObj([status |-> JStr(status), transactions |-> JArr(txs),
                     zid |-> JStr("z1")])>>)

LegResponses ==
    { LegResponse(status, txs) :
        status \in {"bridge_pending", "destination_tx_succeeded"}, txs \in LegArrays }
    \cup {Response(500, StatusText(500), "Bad Gateway", <<>>)}

LegOptions ==
    { a @@ ("intervalMs" :> 0) @@ c :
        a \in {"maxAttempts" :> n : n \in 1..MaxBudget},
        c \in Opt("onUpdate", {"returns", "throws"}) }

NextLegs ==
    \/ \E options \in LegOptions : monitorTransaction(1, options)
    \/ \E resp \in LegResponses : StatusSettles(1, resp)
    \/ TimerFires(1)

SpecLegs == Init /\ [][NextLegs]_vars

\* one run of an example script, or else one monitorTransaction run with
\* the defaults of the client; the status endpoint repeats its first answer
\* until it sends a final status
FinalResponses ==
    {OkResponse("destination_tx_succeeded"), OkResponse("destination_tx_failed")}

ScriptFeed ==
    LET responses == mon[1].responses
    IN  IF responses = <<>> THEN PollResponses
        ELSE {responses[Len(responses)]} \cup FinalResponses

NextScript ==
    \/ /\ mon[1].pc = "idle"
       /\ \E name \in Scripts : \E env \in Environments : RunScript(name, env)
    \/ \E quote \in Quotes : QuoteResolves(quote)
    \/ ApprovalResolves
    \/ SendResolves
    \/ BlockhashResolves
    \/ \E err \in BOOLEAN : ConfirmResolves(err)
    \/ ScriptRejects
    \/ MonitorSettles
    \/ /\ script.pc = "idle"
       /\ monitorTransaction(1, EmptyObj)
    \/ \E resp \in ScriptFeed : StatusSettles(1, resp)
    \/ TimerFires(1)

SpecScript == Init /\ [][NextScript]_vars

\* two monitorTransaction runs interleaved at their awaits, or else two
\* components consuming their streams interleaved at theirs
PairOptions ==
    { ("maxAttempts" :> 2) @@ ("intervalMs" :> 0) @@ c :
        c \in Opt("onUpdate", {"returns", "throws"}) }

\* a component starts on a one-line stream that arrives in any chunks
StartPair(c) ==
    /\ inv[c] = <<>>
    /\ \E kind \in CancelKinds : startStreaming(c, Wire(<<kind>>), <<>>)

MonitorsIdle == \A r \in Runs : mon[r].pc = "idle"
StreamsIdle == \A c \in Components : inv[c] = <<>>

NextPair ==
    \/ /\ StreamsIdle
       /\ \/ \E r \in Runs : \E options \in PairOptions : monitorTransaction(r, options)
          \/ \E r \in Runs : \E resp \in TwinResponses : StatusSettles(r, resp)
          \/ \E r \in Runs : TimerFires(r)
    \/ /\ MonitorsIdle
       /\ \/ \E c \in Components : StartPair(c)
          \/ \E c \in Components : FetchResolves(c, 1, OkStream)
          \/ \E c \in Components :
               \E n \in ChunkSizes(c, 1) : ReadResolves(c, 1, n)
          \/ \E c \in Components : ReadDone(c, 1)

SpecPair == Init /\ [][NextPair]_vars

(***************************************************************************)
(* Vocabulary of the properties.                                           *)
(***************************************************************************)
\* the terminal statuses as the specification lists them
TerminalSet ==
    { "destination_tx_succeeded", "destination_tx_failed",
      "destination_tx_reverted", "bridge_failed", "bridge_filled",
      "refund_succeeded", "refund_failed", "origin_tx_reverted" }

NonTerminalSet ==
    { "origin_tx_succeeded", "origin_tx_confirmed", "bridge_pending",
      "bridge_delayed", "refund_pending", "destination_tx_pending",
      "destination_tx_confirmed", "not_found", "unknown" }

\* the status string of a status object ("" when it has none)
StatusOf(value) ==
    IF Field(value, "status").t = "string" THEN Field(value, "status").v ELSE ""

\* outcome o of getStatus is a status of the set named
Fetched(o, statuses) == o.ok /\ StatusOf(o.value) \in statuses

\* the first attempt of run m whose getStatus returned a terminal status, or 0
FirstTerminal(m) ==
    LET hits == {i \in DOMAIN m.fetched : Fetched(m.fetched[i], TerminalSet)}
    IN  IF hits = {} THEN 0 ELSE CHOOSE i \in hits : \A j \in hits : i <= j

Last(s) == s[Len(s)]

(***************************************************************************)
(* C1: with a budget of N >= 1 attempts and every getStatus call returning *)
(* a non-terminal status, a finished run has made exactly N calls, has     *)
(* waited exactly N-1 times, each time intervalMs, and has thrown the      *)
(* timeout error.                                                          *)
(***************************************************************************)
C1_TimeoutAfterNAttempts ==
    LET m == mon[1]
    IN  ( /\ Done(1)
          /\ m.maxAttempts >= 1
          /\ \A i \in DOMAIN m.fetched : Fetched(m.fetched[i], NonTerminalSet) )
        => /\ m.calls = m.maxAttempts
           /\ Len(m.fetched) = m.maxAttempts
           /\ Len(m.waits) = m.maxAttempts - 1
           /\ \A i \in DOMAIN m.waits : m.waits[i] = m.intervalMs
           /\ m.pc = "thrown"
           /\ m.error = TimeoutError(m.maxAttempts)

(***************************************************************************)
(* C2: when attempt k is the first whose getStatus returns a terminal      *)
(* status, the run returns the status of attempt k right after it: it has  *)
(* made k calls and k-1 waits and continues with nothing else.             *)
(***************************************************************************)
C2_ReturnsAtFirstTerminal ==
    LET m == mon[1]
        k == FirstTerminal(m)
    IN  k > 0
        => /\ m.pc = "returned"
           /\ m.result = m.fetched[k].value
           /\ m.calls = k
           /\ Len(m.fetched) = k
           /\ Len(m.waits) = k - 1

(***************************************************************************)
(* C3: when getStatus throws on an attempt before the last allowed one,    *)
(* the error is swallowed: the run waits intervalMs and then makes the     *)
(* next call.  When getStatus throws on attempt number maxAttempts, the    *)
(* run throws that very error, without a wait and not the timeout error.   *)
(***************************************************************************)
C3Step ==
    LET m == mon[1]
        n == mon'[1]
    IN  /\ (m.pc = "getStatus" /\ n # m /\ ~Last(n.fetched).ok)
           => IF Len(n.fetched) # m.maxAttempts
              THEN /\ n.pc = "setTimeout"
                   /\ n.waits = Append(m.waits, m.intervalMs)
                   /\ n.error = NoError
                   /\ n.calls = m.calls
              ELSE /\ n.pc = "thrown"
                   /\ n.error = Last(n.fetched).error
                   /\ n.error # TimeoutError(m.maxAttempts)
                   /\ n.waits = m.waits
                   /\ n.calls = m.calls
        /\ (m.pc = "setTimeout" /\ n # m /\ ~Last(m.fetched).ok)
           => /\ n.pc = "getStatus"
              /\ n.calls = m.calls + 1
              /\ n.waits = m.waits
              /\ n.error = NoError

\* C3: every step of a run handles a getStatus error as C3Step says
C3_FetchErrorSwallowedOrPropagated == [][C3Step]_vars

\* a run that swallowed one fetch error and threw another, the last one
C3_Witness ==
    LET m == mon[1]
    IN  /\ m.pc = "thrown"
        /\ m.maxAttempts >= 2
        /\ Len(m.fetched) = m.maxAttempts
        /\ ~m.fetched[1].ok
        /\ ~Last(m.fetched).ok
        /\ m.fetched[1].error # Last(m.fetched).error
        /\ m.error = Last(m.fetched).error
        /\ Len(m.waits) = m.maxAttempts - 1

(***************************************************************************)
(* C4: a finished run with maxAttempts >= 1 has thrown if and only if no   *)
(* attempt returned a terminal status; it has thrown the timeout error     *)
(* carrying maxAttempts when the last attempt returned a non-terminal      *)
(* status, and the last attempt's fetch error otherwise.                   *)
(***************************************************************************)
C4_FailsIffNoTerminal ==
    LET m == mon[1]
    IN  (Done(1) /\ m.maxAttempts >= 1)
        => /\ (m.pc = "thrown") <=> (FirstTerminal(m) = 0)
           /\ m.pc = "thrown"
              => IF Fetched(Last(m.fetched), NonTerminalSet)
                 THEN m.error = TimeoutError(m.maxAttempts)
                 ELSE m.error = Last(m.fetched).error

(***************************************************************************)
(* C5: a run returns only a status of the terminal set, and it returns     *)
(* whenever a status of that set was fetched, whichever member it is; a    *)
(* fetched status outside the set leads to the wait or to the timeout.     *)
(***************************************************************************)
C5_ReturnsExactlyOnTerminal ==
    LET m == mon[1]
    IN  /\ m.pc = "returned" => StatusOf(m.result) \in TerminalSet
        /\ (m.pc # "getStatus" /\ m.fetched # <<>>)
           => /\ Fetched(Last(m.fetched), TerminalSet)
                 => m.pc = "returned" /\ m.result = Last(m.fetched).value
              /\ Fetched(Last(m.fetched), NonTerminalSet)
                 => \/ m.pc = "setTimeout"
                    \/ m.pc = "thrown" /\ m.error = TimeoutError(m.maxAttempts)

(***************************************************************************)
(* C6: two finished runs with the same maxAttempts and intervalMs that     *)
(* were fed one and the same sequence of getStatus responses agree on how  *)
(* they ended, on the status returned or the error thrown, on the number   *)
(* of getStatus calls and on the number of waits, whatever their onUpdate  *)
(* callbacks do.                                                           *)
(***************************************************************************)
C6_OnUpdateDoesNotInfluence ==
    ( /\ Done(1)
      /\ Done(2)
      /\ mon[1].maxAttempts = mon[2].maxAttempts
      /\ mon[1].intervalMs = mon[2].intervalMs
      /\ mon[1].responses = mon[2].responses )
    => /\ mon[1].pc = mon[2].pc
       /\ mon[1].result = mon[2].result
       /\ mon[1].error = mon[2].error
       /\ mon[1].calls = mon[2].calls
       /\ mon[1].waits = mon[2].waits

(***************************************************************************)
(* C7: onUpdate, when supplied, has been invoked exactly once for every    *)
(* attempt whose getStatus returned, with that attempt's status and in     *)
(* attempt order, and for no attempt whose getStatus threw; a returned     *)
(* status was handed to onUpdate before, as the last invocation.           *)
(***************************************************************************)
C7_UpdatesFollowFetched ==
    LET m == mon[1]
        oks == SelectSeq(m.fetched, LAMBDA o : o.ok)
    IN  /\ m.onUpdate # "undefined"
           => /\ Len(m.updates) = Len(oks)
              /\ \A i \in DOMAIN oks : m.updates[i] = oks[i].value
        /\ m.onUpdate = "undefined" => m.updates = <<>>
        /\ (m.pc = "returned" /\ m.onUpdate # "undefined")
           => m.updates # <<>> /\ Last(m.updates) = m.result

\* a run with a callback that returned after a failed and a pending attempt
C7_Witness ==
    LET m == mon[1]
    IN  /\ m.pc = "returned"
        /\ m.onUpdate # "undefined"
        /\ Len(m.fetched) = 3
        /\ Len(m.updates) = 2
        /\ \E i \in DOMAIN m.fetched : ~m.fetched[i].ok

(***************************************************************************)
(* C8: every status a run hands to onUpdate or returns, and every status   *)
(* getStatus gave it, carries a status of the closed enumerated set.       *)
(***************************************************************************)
C8_OnlyEnumeratedStatuses ==
    LET m == mon[1]
        closed == TerminalSet \cup NonTerminalSet
    IN  /\ \A i \in DOMAIN m.updates : StatusOf(m.updates[i]) \in closed
        /\ \A i \in DOMAIN m.fetched :
              m.fetched[i].ok => StatusOf(m.fetched[i].value) \in closed
        /\ m.pc = "returned" => StatusOf(m.result) \in closed

\* a run that was sent a status outside the set and later returned
C8_Witness ==
    LET m == mon[1]
    IN  /\ m.pc = "returned"
        /\ m.onUpdate # "undefined"
        /\ \E i \in DOMAIN m.fetched :
              /\ m.responses[i].kind = "http"
              /\ m.responses[i].status = 200
              /\ m.fetched[i].error.name = "ZodError"

(***************************************************************************)
(* C9: on a response whose HTTP status is outside 200-299 getStatus throws *)
(* an error carrying that status and the text of the body, having read the *)
(* body as text only (no JSON decoding, no schema validation); it returns  *)
(* a value only for a status within 200-299.                               *)
(***************************************************************************)
C9_RemoteErrorOnNon2xx ==
    LET r == call.resp
        o == call.out
    IN  call.pc = "settled"
        => /\ (r.kind = "http" /\ r.status \notin 200..299)
              => /\ ~o.ok
                 /\ o.error.msg = "Failed to fetch status: "
                 /\ o.error.n = r.status
                 /\ o.error.statusText = r.statusText
                 /\ o.error.text = r.body.text
                 /\ o.reads = <<"text">>
           /\ o.ok => r.kind = "http" /\ r.status \in 200..299

\* a 404 and a 3xx response with a body that would have passed validation
C9_Witness ==
    /\ call.pc = "settled"
    /\ call.resp.kind = "http"
    /\ call.resp.status \in {300, 404}
    /\ call.resp.body.json # <<>>
    /\ call.resp.body.json[1].t = "object"
    /\ StatusOf(call.resp.body.json[1]) = "bridge_filled"
    /\ Has(call.resp.body.json[1], "zid")
    /\ Has(call.resp.body.json[1], "transactions")
    /\ ~call.out.ok

(***************************************************************************)
(* C10: for a 2xx response with a JSON body that has an unknown status     *)
(* value, an unknown subStatus value, no transactions array, no zid or a   *)
(* malformed transaction entry, getStatus throws a schema violation; the   *)
(* value it returns has none of these defects.                             *)
(***************************************************************************)
WellFormedTx(v) ==
    /\ v.t = "object"
    /\ {"chainId", "chain", "txHash", "timestamp"} \subseteq DOMAIN v.v
    /\ v.v["chainId"].t = "number"
    /\ v.v["chain"].t = "string"
    /\ v.v["txHash"].t = "string"
    /\ v.v["timestamp"].t = "number"

Defective(data) ==
    \/ data.t # "object"
    \/ StatusOf(data) \notin TerminalSet \cup NonTerminalSet
    \/ /\ Has(data, "subStatus")
       /\ \/ Field(data, "subStatus").t # "string"
          \/ Field(data, "subStatus").v \notin
                { "insufficient_allowance", "insufficient_balance",
                  "failed_simulation", "expired", "internal", "unknown" }
    \/ Field(data, "transactions").t # "array"
    \/ \E i \in DOMAIN Field(data, "transactions").v :
          ~WellFormedTx(Field(data, "transactions").v[i])
    \/ Field(data, "zid").t # "string"

C10_SchemaViolationNotReturned ==
    LET r == call.resp
        o == call.out
    IN  (call.pc = "settled" /\ r.kind = "http" /\ r.status \in 200..299
            /\ r.body.json # <<>>)
        => /\ Defective(r.body.json[1])
              => ~o.ok /\ o.error.name = "ZodError" /\ o.error.issues # {}
           /\ o.ok => ~Defective(o.value)

\* a 2xx body whose only defect is one malformed transaction entry
C10_Witness ==
    /\ call.pc = "settled"
    /\ call.resp.kind = "http"
    /\ call.resp.status = 200
    /\ call.resp.body.json # <<>>
    /\ call.out.error.issues = {"transactions"}
    /\ Field(call.resp.body.json[1], "transactions").t = "array"
    /\ Len(Field(call.resp.body.json[1], "transactions").v) = 2

(***************************************************************************)
(* Vocabulary of the stream properties: what a connection has delivered,   *)
(* read as a whole, apart from the way the component consumes it.          *)
(***************************************************************************)
\* the places of the newlines in a byte sequence, and the k-th of them
Ends(bytes) == { j \in DOMAIN bytes : bytes[j] = NL }

End(bytes, k) ==
    IF k = 0 THEN 0
    ELSE CHOOSE j \in Ends(bytes) :
            Cardinality({ i \in DOMAIN bytes : i <= j /\ bytes[i] = NL }) = k

\* the kind of a complete line, from its bytes
LineBytes == [kind \in LineKinds |-> Line(kind)]

KindOf(line) == CHOOSE kind \in LineKinds : LineBytes[kind] = line

\* the kinds of the complete lines delivered so far, in order
Kinds(iv) ==
    [k \in 1..Cardinality(Ends(iv.received)) |->
       KindOf(SubSeq(iv.received, End(iv.received, k - 1) + 1,
                     End(iv.received, k) - 1))]

\* the bytes delivered after the last newline
Fragment(iv) ==
    SubSeq(iv.received,
           End(iv.received, Cardinality(Ends(iv.received))) + 1,
           Len(iv.received))

ErrorKeyKinds == {"fatal", "errorNull"}
ResultKinds == {"resultFalse"}
TerminalKinds == {"resultFalse", "fatal"}
RouteKinds == {"routeFlat", "routeNested", "routeOther"}
IgnoredKinds == {"noSpace", "empty", "space"}
UnreadableKinds == {"malformed", "errorNull"}

\* the place of the first line of one of the kinds, 0 without one
FirstOf(kinds, set) ==
    IF \E j \in DOMAIN kinds : kinds[j] \in set
    THEN CHOOSE j \in DOMAIN kinds :
            kinds[j] \in set /\ \A k \in 1..(j - 1) : kinds[k] \notin set
    ELSE 0

\* the lines up to and including the first result or fatal error
Effective(kinds) ==
    IF FirstOf(kinds, TerminalKinds) = 0 THEN kinds
    ELSE SubSeq(kinds, 1, FirstOf(kinds, TerminalKinds))

Range(seq) == { seq[j] : j \in DOMAIN seq }

\* the places in a sequence whose entry is in a set
Places(seq, set) == { j \in DOMAIN seq : seq[j] \in set }

EventsOf(c, set) == { j \in DOMAIN sq[c].events : sq[c].events[j].kind \in set }

Invocations == { <<c, i>> \in Components \X Calls : i \in DOMAIN inv[c] }

FatalShown(c) ==
    /\ sq[c].error.t = "string"
    /\ sq[c].error.v[1] = "Fatal error: "
    /\ ~sq[c].isStreaming
    /\ sq[c].isComplete

\* C11: every complete data line whose JSON object has an error key,
\* whatever the value under the key, ends the consumption: when such a line
\* is the first terminal line delivered, exactly one fatal error is recorded
\* (error set, isStreaming false, isComplete true) and nothing is recorded
\* after it.
C11_ErrorKeyEndsConsumption ==
    \A p \in Invocations :
       LET c == p[1]
           iv == inv[c][p[2]]
           first == FirstOf(Kinds(iv), ErrorKeyKinds \cup ResultKinds)
       IN  (p[2] = Current(c) /\ first # 0 /\ Kinds(iv)[first] \in ErrorKeyKinds)
           => /\ iv.pc = "returned"
              /\ iv.exit = "fatal"
              /\ FatalShown(c)
              /\ EventsOf(c, {"fatal"}) = {Len(sq[c].events)}

\* C12: at most one terminal event (result or fatal error) is recorded for a
\* stream: it is the first terminal event delivered, it is recorded last and
\* it ends the call; the routes kept are those delivered before it, and
\* liquidityAvailable and the fatal error are set by it alone.
C12_OneTerminalEvent ==
    \A p \in Invocations :
       LET c == p[1]
           iv == inv[c][p[2]]
           kinds == Kinds(iv)
           first == FirstOf(kinds, TerminalKinds)
           terminal == EventsOf(c, {"result", "fatal"})
       IN  p[2] = Current(c)
           => /\ Cardinality(terminal) <= 1
              /\ first = 0 => terminal = {} /\ iv.exit \notin {"result", "fatal"}
              /\ first # 0
                   => /\ terminal = {Len(sq[c].events)}
                      /\ iv.pc = "returned"
                      /\ Len(sq[c].routes)
                           = Cardinality(Places(SubSeq(kinds, 1, first), RouteKinds))
                      /\ kinds[first] = "fatal"
                           => /\ iv.exit = "fatal"
                              /\ FatalShown(c)
                              /\ sq[c].liquidityAvailable.t = "null"
                      /\ kinds[first] \in ResultKinds
                           => /\ iv.exit = "result"
                              /\ sq[c].liquidityAvailable.t = "boolean"
                              /\ ~(sq[c].error.t = "string"
                                     /\ sq[c].error.v[1] = "Fatal error: ")

\* a result then a fatal error (or the reverse) delivered in one chunk, of
\* which the first alone is recorded
C12_Witness ==
    /\ inv[1] # <<>>
    /\ Cardinality(Places(Kinds(inv[1][1]), TerminalKinds)) = 2
    /\ Cardinality(EventsOf(1, {"result", "fatal"})) = 1
    /\ inv[1][1].pc = "returned"

\* C13: once a terminal event has been decoded the call reads no further
\* chunk and the connection is closed: the reader is cancelled or the
\* request aborted.
C13_TerminalClosesConnection ==
    \A p \in Invocations :
       LET iv == inv[p[1]][p[2]]
       IN  iv.exit \in {"result", "fatal"}
           => iv.pc = "returned" /\ (iv.cancelled \/ iv.aborted)

\* C14: a stream read as two chunks, split at any byte (inside a line,
\* inside the data prefix, at a newline, inside a character of two bytes),
\* leaves the component with the records, in the order, that the same
\* stream read as one chunk leaves: at every moment what the second reader
\* has recorded begins what the first recorded, and is equal to it at the
\* end.
C14_SplitGivesSameEvents ==
    inv[2] # <<>>
    => /\ Len(sq[2].events) <= Len(sq[1].events)
       /\ sq[2].events = SubSeq(sq[1].events, 1, Len(sq[2].events))
       /\ inv[2][1].pc = "returned"
            => /\ sq[2] = sq[1]
               /\ inv[2][1].exit = inv[1][1].exit

\* a split between the two bytes of a character of a route that both
\* readers have recorded
C14_Witness ==
    /\ inv[2] # <<>>
    /\ inv[2][1].pc = "returned"
    /\ inv[2][1].chunks = 2
    /\ inv[2][1].received[inv[2][1].plan[1]] = "C3"
    /\ sq[2].routes # <<>>
    /\ sq[2].events = sq[1].events

LineEvents == {"route", "result", "fatal", "parseError"}
EventfulKinds == RouteKinds \cup TerminalKinds \cup UnreadableKinds

\* C15: the text after the last newline delivered is never parsed: it is
\* what the carry-over buffer (with the decoder, for the bytes of an
\* unfinished character) holds, whatever the chunks were, and the records
\* made come from the complete lines alone, one for each line that carries
\* an event, also when the endpoint closes after an unterminated line.
C15_FragmentKeptNotParsed ==
    \A p \in Invocations :
       LET c == p[1]
           iv == inv[c][p[2]]
       IN  (p[2] = Current(c) /\ iv.pc # "fetch")
           => /\ Decode(<<>>, Fragment(iv)) = [text |-> iv.buffer, pend |-> iv.pend]
              /\ Cardinality(EventsOf(c, LineEvents))
                   = Cardinality(Places(Effective(Kinds(iv)), EventfulKinds))

\* the endpoint closes after a route line and a whole result event without
\* its newline: the route alone is recorded
C15_Witness ==
    /\ inv[1] # <<>>
    /\ inv[1][1].exit = "done"
    /\ Kinds(inv[1][1]) = <<"routeFlat">>
    /\ Fragment(inv[1][1]) = Line("resultFalse")
    /\ Len(sq[1].events) = 1
    /\ sq[1].liquidityAvailable.t = "null"

EventKind(kind) ==
    CASE kind \in RouteKinds -> "route"
      [] kind \in ResultKinds -> "result"
      [] kind = "fatal" -> "fatal"
      [] OTHER -> "parseError"

NotMalformed(kind) == kind # "malformed"
Carries(kind) == kind \in RouteKinds \cup TerminalKinds
Carried(event) == event.kind \in {"route", "result", "fatal"}

ParseErrorShown(c) ==
    /\ sq[c].error.t = "string"
    /\ sq[c].error.v[1] = "Error parsing server response"

\* C16: a data line that fails JSON parsing is not fatal: it is reported
\* (the error message is set), the call goes on, and the routes and the
\* result or fatal error recorded are those of the stream without the
\* malformed lines.
C16_MalformedLineNotFatal ==
    \A p \in Invocations :
       LET c == p[1]
           iv == inv[c][p[2]]
           kinds == Kinds(iv)
           clean == SelectSeq(Effective(SelectSeq(kinds, NotMalformed)), Carries)
           carried == SelectSeq(sq[c].events, Carried)
       IN  (p[2] = Current(c) /\ iv.pc # "fetch")
           => /\ Len(carried) = Len(clean)
              /\ \A j \in DOMAIN clean : carried[j].kind = EventKind(clean[j])
              /\ Cardinality(EventsOf(c, {"parseError"}))
                   = Cardinality(Places(Effective(kinds), UnreadableKinds))
              /\ ("malformed" \in Range(Effective(kinds))
                    /\ iv.exit \in {"", "done", "result"})
                   => ParseErrorShown(c)
              /\ (FirstOf(kinds, TerminalKinds) = 0 /\ iv.exit \in {"", "done"})
                   => sq[c].isStreaming /\ ~sq[c].isComplete

\* a malformed line, then a result that is recorded
C16_Witness ==
    /\ inv[1] # <<>>
    /\ Kinds(inv[1][1]) = <<"malformed", "resultFalse">>
    /\ ParseErrorShown(1)
    /\ sq[1].liquidityAvailable.t = "boolean"
    /\ inv[1][1].exit = "result"

\* the kinds of the lines a step completes for the current call of c
Completed(c) ==
    LET after == Kinds(inv'[c][Current(c)])
    IN  SubSeq(after, Cardinality(Ends(inv[c][Current(c)].received)) + 1, Len(after))

\* a read that changes the state of the component completes a line that is
\* not one of the ignored kinds
C17Step ==
    \A c \in Components :
       (/\ inv[c] # <<>>
        /\ Len(inv'[c]) = Len(inv[c])
        /\ inv[c][Current(c)].pc = "read"
        /\ inv'[c][Current(c)].received # inv[c][Current(c)].received
        /\ sq'[c] # sq[c])
       => ~(Range(Completed(c)) \subseteq IgnoredKinds)

\* C17: reading a chunk changes nothing of the component's state when the
\* lines it completes do not start with "data: " or are "data: " lines
\* whose remainder is empty or only whitespace.
C17_IgnoredLinesChangeNothing == [][C17Step]_vars

\* an empty and a whitespace-only data line read, and the state as the
\* start of the call left it
C17_Witness ==
    /\ inv[1] # <<>>
    /\ inv[1][1].pc = "read"
    /\ Range(Kinds(inv[1][1])) = {"empty", "space"}
    /\ sq[1].events = <<>>
    /\ sq[1].error.t = "null"
    /\ sq[1].isStreaming

\* the record a route line stands for, as the k-th route of its stream
RouteRecord(kind, k) ==
    IF kind = "routeOther"
    THEN JObj([id |-> JStr("z-e9"), displayIndex |-> JNum(k),
               allowanceTarget |-> JNull,
               sellAmount |-> JStr("1000"), buyAmount |-> JNum(98),
               minBuyAmount |-> JNum(97), estimatedTimeSeconds |-> JNum(30),
               gasCosts |-> JObj([totalNetworkFee |-> JStr("21000")]),
               seqNum |-> JNum(98)])
    ELSE JObj([id |-> JStr("z1"), displayIndex |-> JNum(k),
               allowanceTarget |-> JStr("0xT"),
               sellAmount |-> JStr("1000"), buyAmount |-> JNum(99),
               minBuyAmount |-> JNum(98), estimatedTimeSeconds |-> JNum(30),
               gasCosts |-> JObj([totalNetworkFee |-> JStr("21000")]),
               seqNum |-> JNum(99)])

IsRoute(kind) == kind \in RouteKinds

\* C18: the routes are kept in the order of arrival: the k-th route line
\* since the start of the call is the k-th entry of routes, with
\* displayIndex k and the zid of its event as id; a result after n routes
\* leaves routes 1..n, then the result, and ends the call.
C18_RoutesInArrivalOrder ==
    \A p \in Invocations :
       LET c == p[1]
           iv == inv[c][p[2]]
           kinds == Effective(Kinds(iv))
           arrived == SelectSeq(kinds, IsRoute)
           carried == SelectSeq(sq[c].events, Carried)
       IN  (p[2] = Current(c) /\ iv.pc # "fetch")
           => /\ Len(sq[c].routes) = Len(arrived)
              /\ \A k \in DOMAIN arrived :
                    /\ sq[c].routes[k] = RouteRecord(arrived[k], k)
                    /\ carried[k] = Event("route", RouteRecord(arrived[k], k))
              /\ (kinds # <<>> /\ Last(kinds) \in ResultKinds)
                   => /\ Len(carried) = Len(arrived) + 1
                      /\ Last(carried).kind = "result"
                      /\ sq[c].liquidityAvailable.t = "boolean"
                      /\ sq[c].liquidityAvailable.v = FALSE
                      /\ iv.pc = "returned"
                      /\ iv.exit = "result"

\* two routes of different zids, kept in the order they came
C18_Witness ==
    /\ inv[1] # <<>>
    /\ Kinds(inv[1][1]) = <<"routeOther", "routeFlat">>
    /\ Len(sq[1].routes) = 2
    /\ Field(sq[1].routes[1], "id").v = "z-e9"
    /\ Field(sq[1].routes[2], "id").v = "z1"
    /\ Field(sq[1].routes[2], "displayIndex").v = 2

WithoutIndex(route) ==
    [key \in DOMAIN route.v \ {"displayIndex"} |-> route.v[key]]

\* C19: a route event with its fields nested under route beside a sibling
\* allowanceTarget, and a flat route event with the same fields and zid,
\* are recorded as identical route records (their positions apart).
C19_NestedAndFlatAlike ==
    \A p \in Invocations :
       LET c == p[1]
           iv == inv[c][p[2]]
           arrived == SelectSeq(Effective(Kinds(iv)), IsRoute)
       IN  (p[2] = Current(c) /\ iv.pc # "fetch")
           => \A a, b \in DOMAIN arrived \cap DOMAIN sq[c].routes :
                 (arrived[a] = "routeFlat" /\ arrived[b] = "routeNested")
                 => WithoutIndex(sq[c].routes[a]) = WithoutIndex(sq[c].routes[b])

\* a nested route recorded after a flat one
C19_Witness ==
    /\ inv[1] # <<>>
    /\ Kinds(inv[1][1]) = <<"routeFlat", "routeNested">>
    /\ Len(sq[1].routes) = 2
    /\ Has(sq[1].routes[2], "sellAmount")
    /\ ~Has(sq[1].routes[2], "route")

C20Step ==
    \A c \in Components :
       (/\ inv[c] # <<>>
        /\ Len(inv'[c]) = Len(inv[c])
        /\ inv[c][Current(c)].pc = "read"
        /\ inv'[c][Current(c)].exit = "done")
       => /\ inv'[c][Current(c)].pc = "returned"
          /\ FirstOf(Kinds(inv[c][Current(c)]), TerminalKinds) = 0
          /\ sq'[c] = sq[c]
          /\ sq'[c].liquidityAvailable.t = "null"
          /\ ~sq'[c].isComplete
          /\ ~(sq'[c].error.t = "string" /\ sq'[c].error.v[1] # "Error parsing server response")

\* C20: when the endpoint closes the stream and no result or fatal error has
\* been recorded, the call simply ends: the end sets no error (the one shown
\* can only be that of a malformed line), liquidityAvailable stays null,
\* isComplete stays false and the routes recorded are kept.
C20_EndWithoutTerminal == [][C20Step]_vars

\* the stream has ended after a route and no terminal event
C20_Witness ==
    /\ inv[1] # <<>>
    /\ inv[1][1].exit = "done"
    /\ Len(sq[1].routes) = 1
    /\ sq[1].error.t = "null"
    /\ sq[1].liquidityAvailable.t = "null"
    /\ ~sq[1].isComplete

NonSuccess(status) == status < 200 \/ status > 299

OpeningFailed(c, iv) ==
    /\ iv.pc = "returned"
    /\ iv.received = <<>>
    /\ sq[c].routes = <<>>
    /\ sq[c].liquidityAvailable.t = "null"
    /\ sq[c].error.t = "string"
    /\ ~sq[c].isStreaming
    /\ sq[c].isComplete

\* C21: opening the stream fails as a value before any line is parsed: a
\* response whose status is not 2xx is never read; once its text has been
\* read the error shown carries the status and the text; a 2xx response
\* without a readable body gives the no-response-body error; in both cases
\* no route is recorded, isStreaming is false and isComplete is true.
C21_OpeningFailsAsValue ==
    \A p \in Invocations :
       LET c == p[1]
           iv == inv[c][p[2]]
       IN  (p[2] = Current(c) /\ iv.pc # "fetch")
           => /\ NonSuccess(iv.response.status)
                   => /\ iv.pc \in {"text", "returned"}
                      /\ iv.exit \in {"", "notOk", "error"}
                      /\ iv.pc = "text" => sq[c].error.t = "null" /\ sq[c].isStreaming
                      /\ iv.exit = "notOk"
                           => /\ OpeningFailed(c, iv)
                              /\ sq[c].error.v
                                   = <<"API error: ",
                                       JArr(<<JNum(iv.response.status),
                                              JStr(iv.response.text)>>)>>
              /\ (~NonSuccess(iv.response.status) /\ ~iv.response.body)
                   => /\ iv.exit = "noBody"
                      /\ OpeningFailed(c, iv)
                      /\ sq[c].error.v[1] = "No response body available"
              /\ iv.exit \in {"notOk", "noBody"}
                   => NonSuccess(iv.response.status) \/ ~iv.response.body

\* a 404 response whose body text has been read and is shown with the status
C21_Witness ==
    /\ inv[1] # <<>>
    /\ inv[1][1].exit = "notOk"
    /\ inv[1][1].response.status = 404
    /\ inv[1][1].response.text = "Bad Gateway"
    /\ sq[1].error.v[2] = JArr(<<JNum(404), JStr("Bad Gateway")>>)
    /\ sq[1].isComplete

C22Step ==
    \A c \in Components :
       /\ \A i \in DOMAIN inv[c] :
             inv[c][i].aborted
             => /\ inv'[c][i].aborted
                /\ inv'[c][i].received = inv[c][i].received
                /\ inv'[c][i] # inv[c][i]
                     => sq'[c] = sq[c] /\ inv'[c][i].exit = "aborted"
       /\ (/\ sq[c].abortControllerRef # 0
           /\ \/ sq'[c].abortControllerRef # sq[c].abortControllerRef
              \/ sq'[c].mounted # sq[c].mounted)
          => inv'[c][sq[c].abortControllerRef].aborted

\* C22: stopStreaming, a restart and the unmounting of the component abort
\* the connection of the stream whose controller the component holds; from
\* then on that stream receives no chunk and its steps change nothing of
\* the component's state (no route, no result, no error, isComplete as it
\* was), whether the abort came during the fetch, the reading of an error
\* body, a pending read or after completed reads.
C22_CancelledStreamRecordsNothing == [][C22Step]_vars

\* a stream stopped after its first route: the pending read was rejected
\* and the route is still all that is shown
C22_Witness ==
    /\ inv[1] # <<>>
    /\ inv[1][1].exit = "aborted"
    /\ inv[1][1].received # <<>>
    /\ inv[1][1].wire # <<>>
    /\ Len(inv[1]) = 1
    /\ Len(sq[1].routes) = 1
    /\ sq[1].error.t = "null"
    /\ ~sq[1].isComplete
    /\ ~sq[1].isStreaming

\* C23: startStreaming aborts the connection of the earlier start before
\* it makes the new request: in every state every connection the
\* component opened, except the one of its latest start, is aborted, so at
\* most one is not.
C23_OneActiveStream ==
    \A c \in Components :
       /\ \A i \in DOMAIN inv[c] : i < Len(inv[c]) => inv[c][i].aborted
       /\ Cardinality({ i \in DOMAIN inv[c] : ~inv[c][i].aborted }) <= 1

\* a second start while the first stream was waiting for its next chunk
C23_Witness ==
    /\ Len(inv[1]) = 2
    /\ inv[1][1].pc = "read"
    /\ inv[1][1].received # <<>>
    /\ inv[1][1].aborted
    /\ ~inv[1][2].aborted
    /\ sq[1].abortControllerRef = 2

\* a run executed alone on the responses given: every await settles at once
RECURSIVE RunAlone(_, _)
RunAlone(m, responses) ==
    IF m.pc = "getStatus" /\ responses # <<>>
    THEN RunAlone(Iteration(m, Head(responses)), Tail(responses))
    ELSE IF m.pc = "setTimeout" THEN RunAlone(NextAttempt(m), responses)
    ELSE m

Called(m) ==
    LoopTest([IdleRun EXCEPT !.maxAttempts = m.maxAttempts,
                             !.intervalMs = m.intervalMs,
                             !.onUpdate = m.onUpdate])

\* what of a run its caller and its callback see
Seen(m) ==
    [result |-> m.result, error |-> m.error, calls |-> m.calls,
     updates |-> m.updates, waits |-> m.waits, finished |-> m.pc \in {"returned", "thrown"}]

\* C24: runs interleaved at their awaits share nothing: at every moment the
\* status returned or error thrown by each run, its number of getStatus
\* calls and the statuses handed to its onUpdate are those of the same run
\* executed alone on the responses it was given; and each stream
\* consumption keeps in its own buffer the unfinished line of its own
\* stream and records the routes of its own stream.
C24_ConcurrentRunsIndependent ==
    /\ \A r \in Runs :
          mon[r].pc # "idle"
          => LET alone == RunAlone(Called(mon[r]), mon[r].responses)
             IN  Seen(IF mon[r].pc = "setTimeout" THEN NextAttempt(mon[r]) ELSE mon[r])
                   = Seen(alone)
    /\ \A c \in Components :
          (inv[c] # <<>> /\ inv[c][1].pc # "fetch")
          => /\ Decode(<<>>, Fragment(inv[c][1]))
                  = [text |-> inv[c][1].buffer, pend |-> inv[c][1].pend]
             /\ Len(sq[c].routes)
                  = Cardinality(Places(Effective(Kinds(inv[c][1])), RouteKinds))

\* both runs are under way at once, one awaiting its second getStatus and
\* the other its timer, after different responses
C24_Witness ==
    /\ mon[1].pc = "getStatus"
    /\ Len(mon[1].responses) = 1
    /\ mon[2].pc = "setTimeout"
    /\ Len(mon[2].responses) = 1
    /\ mon[1].responses # mon[2].responses

\* a request or signature that moves funds or commits the sender to it
Spending == {"approve", "signGasPayer", "sign", "sendTransaction"}

\* C26: a script never approves, signs or sends while the receiver is the
\* built-in default address: a script started with the private key of the
\* origin chain configured and the receiver address of the destination
\* chain absent or empty has stopped, and has requested no quote, approved
\* nothing, and signed and sent nothing.
C26_NeverSendsToDefaultReceiver ==
    script.pc # "idle"
    => /\ script.receiverAddress # "explicit"
            => \A k \in DOMAIN script.did : script.did[k] \notin Spending
       /\ (Configured(PrivateKey(script)) /\ ~Configured(ExplicitReceiver(script)))
            => /\ script.pc \in {"returned", "exited"}
               /\ script.did = <<>>

\* solanaToBaseExample has stopped at its safety check: the key is
\* configured, the receiver of the other chain is configured, its own is empty
C26_Witness ==
    /\ script.name = "solanaToBaseExample"
    /\ script.env.SOLANA_PRIVATE_KEY = "key"
    /\ script.env.EVM_RECEIVER_ADDRESS = ""
    /\ script.env.SOLANA_RECEIVER_ADDRESS = "address"
    /\ script.pc = "returned"
    /\ script.exit = "safety"

\* the time a run has spent waiting, in ms
RECURSIVE Total(_)
Total(waits) == IF waits = <<>> THEN 0 ELSE Head(waits) + Total(Tail(waits))

\* the timeout the README of the scripts documents: 10 minutes, in ms
DocumentedTimeoutMs == 600000

\* C27: a run with the options of the scripts makes at most 120 requests
\* and waits at most 119 times 5000 ms, 595000 ms in all, which is not more
\* than the 10 minutes documented, however it ends; a run with the
\* defaults of the client makes at most 60 requests and waits at most 59
\* times 5000 ms.
C27_PollingBudget ==
    /\ script.pc = "monitorTransaction"
         => /\ mon[1].calls <= 120
            /\ Len(mon[1].waits) <= 119
            /\ \A k \in DOMAIN mon[1].waits : mon[1].waits[k] = 5000
            /\ Total(mon[1].waits) <= 595000
            /\ Total(mon[1].waits) <= DocumentedTimeoutMs
    /\ (script.pc = "idle" /\ mon[1].pc # "idle")
         => /\ mon[1].calls <= 60
            /\ Len(mon[1].waits) <= 59
            /\ Total(mon[1].waits) <= 59 * 5000

\* the monitoring of a script has timed out after its 120th request
C27_Witness ==
    /\ script.pc = "monitorTransaction"
    /\ mon[1].pc = "thrown"
    /\ mon[1].calls = 120
    /\ Total(mon[1].waits) = 595000

Transactions(status) == Field(status, "transactions").v

IsPrefix(a, b) == Len(a) <= Len(b) /\ SubSeq(b, 1, Len(a)) = a

\* each transactions sequence has the one before it as a prefix
AppendOnly(statuses) ==
    \A k \in 1..(Len(statuses) - 1) :
       IsPrefix(Transactions(statuses[k]), Transactions(statuses[k + 1]))

\* the statuses getStatus has returned to a run, in order
RECURSIVE Statuses(_)
Statuses(fetched) ==
    IF fetched = <<>> THEN <<>>
    ELSE (IF Head(fetched).ok THEN <<Head(fetched).value>> ELSE <<>>)
           \o Statuses(Tail(fetched))

\* the statuses a run has handed to onUpdate and then returned
Handed(m) ==
    m.updates \o (IF m.pc = "returned" THEN <<m.result>> ELSE <<>>)

\* C28 as stated: along the statuses a run hands to onUpdate and returns,
\* each transactions sequence has the previous one as a prefix.
C28_TransactionsAppendOnly ==
    mon[1].pc # "idle" => AppendOnly(Handed(mon[1]))

\* C28 as amended: the monitor hands the transactions of each fetched status
\* to onUpdate, and returns those of the last one, unmodified and in the
\* order fetched; so the sequences it hands on are append-only whenever
\* those of the statuses the endpoint sent are.
C28_TransactionsPassedUnmodified ==
    mon[1].pc # "idle"
    => LET m == mon[1]
           fetched == Statuses(m.fetched)
       IN  /\ m.onUpdate # "undefined"
                => /\ Len(m.updates) = Len(fetched)
                   /\ \A k \in DOMAIN fetched :
                        Transactions(m.updates[k]) = Transactions(fetched[k])
           /\ m.pc = "returned"
                => Transactions(m.result) = Transactions(fetched[Len(fetched)])
           /\ AppendOnly(fetched) => AppendOnly(Handed(m))

\* a run has returned after handing on a status with two legs and then one
\* with the first leg only
C28_Witness ==
    /\ mon[1].pc = "returned"
    /\ Len(mon[1].updates) = 2
    /\ Len(Transactions(mon[1].updates[1])) = 2
    /\ Len(Transactions(mon[1].result)) = 1
    /\ Transactions(mon[1].result)[1] = Transactions(mon[1].updates[1])[1]

\* C29: whatever the outcomes of its getStatus calls, a run waits once
\* between two consecutive attempts and never after the last: while the
\* a-th call is pending it has waited a-1 times, while it waits after the
\* a-th call it has waited a times and a < maxAttempts, and when it has
\* returned or thrown after a >= 1 calls it has waited a-1 times and
\* a <= maxAttempts; it is always in a getStatus call, in a wait or finished.
C29_OneWaitBetweenAttempts ==
    LET m == mon[1]
        a == Len(m.responses)
    IN  m.pc # "idle"
        => /\ m.pc \in {"getStatus", "setTimeout", "returned", "thrown"}
           /\ m.pc = "getStatus" => Len(m.waits) = a /\ m.calls = a + 1
           /\ m.pc = "setTimeout" => Len(m.waits) = a /\ a < m.maxAttempts
           /\ (m.pc \in {"returned", "thrown"} /\ a >= 1)
                => /\ Len(m.waits) = a - 1
                   /\ a <= m.maxAttempts
                   /\ m.calls = a

\* a run has thrown after three attempts, one failed, one pending, one failed
C29_Witness ==
    LET m == mon[1]
    IN  /\ m.pc = "thrown"
        /\ Len(m.responses) = 3
        /\ ~m.fetched[1].ok
        /\ m.fetched[2].ok
        /\ ~m.fetched[3].ok
        /\ Len(m.waits) = 2

\* C30: every run terminates: if every getStatus call settles and every
\* timer fires, a run that was called eventually has returned a status or
\* thrown, having made at most maxAttempts getStatus calls (none when
\* maxAttempts is not positive), whatever the outcomes of the calls.
C30_RunTerminates ==
    (mon[1].pc # "idle")
      ~> (/\ Done(1)
          /\ \/ mon[1].calls <= mon[1].maxAttempts
             \/ mon[1].calls = 0)

\* a run has timed out after a pending status at every attempt
C30_Witness ==
    /\ mon[1].pc = "thrown"
    /\ mon[1].maxAttempts = MaxBudget
    /\ mon[1].calls = MaxBudget
    /\ mon[1].error = TimeoutError(MaxBudget)

C31_NoAttemptsTimesOutAtOnce ==
    LET m == mon[1]
    IN  (m.pc # "idle" /\ m.maxAttempts <= 0)
        => /\ m.pc = "thrown"
           /\ m.calls = 0
           /\ m.responses = <<>>
           /\ m.waits = <<>>
           /\ m.updates = <<>>
           /\ m.error.name = "Error"
           /\ m.error.msg = "Transaction monitoring timed out after "
           /\ m.error.n = m.maxAttempts
           /\ m.error.text = " attempts"

\* a run called with a negative maxAttempts and a callback has thrown
C31_Witness ==
    /\ mon[1].pc = "thrown"
    /\ mon[1].maxAttempts = 0 - 1
    /\ mon[1].onUpdate = "returns"
    /\ mon[1].error.n = 0 - 1

\* a step of a call of startStreaming that is not the latest call of its
\* component leaves the session of the latest call as it was
C32Step ==
    \A c \in Components :
       \A i \in DOMAIN inv[c] :
          (/\ i < Len(inv[c])
           /\ Len(inv'[c]) = Len(inv[c])
           /\ inv'[c][i] # inv[c][i])
          => /\ sq'[c].routes = sq[c].routes
             /\ sq'[c].liquidityAvailable = sq[c].liquidityAvailable
             /\ sq'[c].error = sq[c].error
             /\ sq'[c].isComplete = sq[c].isComplete
             /\ sq'[c].isStreaming = sq[c].isStreaming
             /\ inv'[c][i].received = inv[c][i].received

\* C32: after a restart nothing of the earlier stream reaches the new
\* session: a step of the earlier call delivers no chunk, appends no route
\* to the reset list, sets neither liquidityAvailable nor error, and leaves
\* isComplete and isStreaming of the new session as they were.
C32_EarlierStreamLeavesSessionAlone == [][C32Step]_vars

\* the first call was restarted while chunks of its stream were still to
\* come, its pending read was rejected, and the second call has recorded a
\* route and is streaming
C32_Witness ==
    /\ Len(inv[1]) = 2
    /\ inv[1][1].exit = "aborted"
    /\ inv[1][1].received # <<>>
    /\ inv[1][1].wire # <<>>
    /\ inv[1][2].pc = "read"
    /\ Len(sq[1].routes) = 1
    /\ sq[1].isStreaming

\* C33: when a call of startStreaming has ended, and not by an abort
\* (result, fatal error, failed request, response not ok, no body,
\* transport error, or the endpoint closing the stream), isStreaming is
\* false.
C33_EndedStreamNotStreaming ==
    \A c \in Components :
       (/\ inv[c] # <<>>
        /\ inv[c][Current(c)].pc = "returned"
        /\ inv[c][Current(c)].exit # "aborted")
       => ~sq[c].isStreaming

\* C34: in every state of the component, whatever the order of starts,
\* stops, restarts and events of the streams, isStreaming and isComplete
\* are not both true, and liquidityAvailable is set only when isComplete is
\* true and isStreaming false.
C34_FlagsConsistent ==
    \A c \in Components :
       /\ ~(sq[c].isStreaming /\ sq[c].isComplete)
       /\ sq[c].liquidityAvailable.t # "null"
            => sq[c].isComplete /\ ~sq[c].isStreaming

\* a stopped call was followed by one that has recorded a result
C34_Witness ==
    /\ Len(inv[1]) = 2
    /\ inv[1][1].exit = "aborted"
    /\ inv[1][2].exit = "result"
    /\ sq[1].liquidityAvailable.t # "null"
    /\ sq[1].isComplete
    /\ ~sq[1].isStreaming

C35Step ==
    \A c \in Components :
       /\ Len(inv'[c]) = Len(inv[c]) + 1
            => /\ sq'[c].routes = <<>>
               /\ sq'[c].error.t = "null"
               /\ ~sq'[c].isComplete
               /\ sq'[c].liquidityAvailable.t = "null"
               /\ sq'[c].isStreaming
               /\ inv'[c][Len(inv'[c])].pc = "fetch"
               /\ inv'[c][Len(inv'[c])].received = <<>>
       /\ inv'[c] # <<>>
            => /\ Len(sq'[c].routes)
                    <= Len(SelectSeq(Effective(Kinds(inv'[c][Len(inv'[c])])), IsRoute))
               /\ \A k \in DOMAIN sq'[c].routes :
                     Field(sq'[c].routes[k], "displayIndex").v = k

\* C35: every call of startStreaming resets the session before any event
\* of the new stream is received: routes empty, error null, isComplete
\* false, liquidityAvailable null and isStreaming true; afterwards routes
\* holds no more than the routes of the new stream, numbered from 1.
C35_StartResetsSession == [][C35Step]_vars

\* the first call had recorded a route and its result; the second call
\* shows its own first route as number 1
C35_Witness ==
    /\ Len(inv[1]) = 2
    /\ inv[1][1].exit = "result"
    /\ Kinds(inv[1][1]) = <<"routeFlat", "resultFalse">>
    /\ Kinds(inv[1][2]) = <<"routeFlat">>
    /\ sq[1].routes = <<RouteRecord("routeFlat", 1)>>
    /\ sq[1].liquidityAvailable.t = "null"
    /\ sq[1].isStreaming

\* the runs of the scripts with every key and receiver configured, and a
\* status service that answers with any of the statuses that end the
\* monitoring
CompleteEnvironment ==
    [EVM_PRIVATE_KEY |-> "key", SOLANA_PRIVATE_KEY |-> "key",
     SOLANA_GAS_PAYER_PRIVATE_KEY |-> "otherKey",
     EVM_RECEIVER_ADDRESS |-> "address", SOLANA_RECEIVER_ADDRESS |-> "address"]

OutcomeFeed ==
    LET responses == mon[1].responses
    IN  { OkResponse(status) : status \in TerminalSet } \cup
        (IF responses = <<>>
         THEN { OkResponse("bridge_pending"),
                Response(500, StatusText(500), "Bad Gateway", <<>>) }
         ELSE { responses[Len(responses)] })

NextOutcome ==
    \/ /\ mon[1].pc = "idle"
       /\ \E name \in Scripts : RunScript(name, CompleteEnvironment)
    \/ \E quote \in Quotes : QuoteResolves(quote)
    \/ ApprovalResolves
    \/ SendResolves
    \/ BlockhashResolves
    \/ \E err \in BOOLEAN : ConfirmResolves(err)
    \/ ScriptRejects
    \/ MonitorSettles
    \/ \E resp \in OutcomeFeed : StatusSettles(1, resp)
    \/ TimerFires(1)

SpecOutcome == Init /\ [][NextOutcome]_vars

\* C36: once the monitoring of a script has settled, the script reports
\* success exactly when the returned status is destination_tx_succeeded or
\* bridge_filled, reports that the swap did not complete for each of
\* destination_tx_failed, destination_tx_reverted, bridge_failed,
\* refund_succeeded, refund_failed and origin_tx_reverted, and on an error
\* of the monitor reports a monitoring failure and ends normally.
C36_SuccessOnlyOnDelivery ==
    LET m == mon[1]
        status == Field(m.result, "status").v
    IN  /\ script.outcome # "" =>
              /\ script.pc = "returned"
              /\ script.exit = "end"
              /\ m.pc \in {"returned", "thrown"}
              /\ m.pc = "thrown" <=> script.outcome = "monitoringFailed"
              /\ m.pc = "returned" =>
                    /\ script.outcome = "completed"
                         <=> status \in {"destination_tx_succeeded", "bridge_filled"}
                    /\ script.outcome = "notCompleted"
                         <=> status \in {"destination_tx_failed", "destination_tx_reverted",
                                         "bridge_failed", "refund_succeeded",
                                         "refund_failed", "origin_tx_reverted"}
        /\ (script.pc = "returned" /\ Len(script.did) > 0
              /\ script.did[Len(script.did)] = "monitorTransaction")
             => script.outcome \in {"completed", "notCompleted", "monitoringFailed"}

\* the gas payer script was told of a refund after a pending bridge
C36_Witness ==
    /\ script.name = "solanaToBaseWithGasPayerExample"
    /\ script.outcome = "notCompleted"
    /\ mon[1].pc = "returned"
    /\ Field(mon[1].result, "status").v = "refund_succeeded"
    /\ Len(mon[1].responses) = 2

\* the calls of a script in the order of its text, for the route it was
\* quoted
Steps(s) ==
    IF s.name = "baseToSolanaExample"
    THEN <<"getQuote">>
           \o (IF s.route.allowance /\ s.wallet
               THEN <<"approve", "waitForTransactionReceipt">> ELSE <<>>)
           \o <<"sendTransaction", "waitForTransactionReceipt", "monitorTransaction">>
    ELSE <<"getQuote">>
           \o (IF s.name = "solanaToBaseWithGasPayerExample"
               THEN <<"signGasPayer">> ELSE <<>>)
           \o <<"sign", "sendTransaction", "getLatestBlockhash", "confirmTransaction",
                "monitorTransaction">>

MonitoringStarted == "monitorTransaction" \in Range(script.did)

TransactionSent == "sendTransaction" \in Range(script.did)

\* C37: a script makes its calls in the order of its text; it monitors only
\* after the origin transaction was sent and its confirmation returned
\* without an error; the EVM script with a balance issue makes no approval
\* and sends nothing, and sends a needed approval and waits for its receipt
\* before it sends the swap; without a sent transaction (no liquidity, no
\* key, a failed confirmation) nothing is monitored.
C37_StepsInOrder ==
    script.name # "" =>
       /\ IsPrefix(script.did, Steps(script))
       /\ mon[1].pc # "idle" <=> MonitoringStarted
       /\ MonitoringStarted => TransactionSent /\ script.confirmation \in {"ok", "receipt"}
       /\ script.confirmation = "err" => ~MonitoringStarted /\ script.pc = "returned"
       /\ script.exit \in {"safety", "noLiquidity", "balance", "ready", "notSvm",
                           "transactionFailed", "error"}
            => ~MonitoringStarted
       /\ ~script.wallet => ~TransactionSent
       /\ (script.name = "baseToSolanaExample" /\ script.route.balance)
            => script.did = <<"getQuote">> /\ script.pc = "returned"
       /\ (script.name = "baseToSolanaExample" /\ script.route.allowance /\ TransactionSent)
            => IsPrefix(<<"getQuote", "approve", "waitForTransactionReceipt",
                          "sendTransaction">>, script.did)

\* the EVM script approved, sent the swap and is monitoring it
C37_Witness ==
    /\ script.name = "baseToSolanaExample"
    /\ script.route.allowance
    /\ script.did = <<"getQuote", "approve", "waitForTransactionReceipt",
                      "sendTransaction", "waitForTransactionReceipt",
                      "monitorTransaction">>
    /\ script.confirmation = "receipt"
    /\ mon[1].pc = "getStatus"
    /\ mon[1].calls = 2

====
